---- MODULE Spec2Model ----
(***************************************************************************)
(* A model of the xv6-net kernel network stack (rust/src): the socket      *)
(* table and its system calls (net.rs), the ARP cache and resolver         *)
(* (arp.rs), the ingress pipeline run by the NIC interrupt handler, the    *)
(* wire types (ethernet.rs, ip.rs, udp.rs, icmp.rs), the PacketBuffer      *)
(* (packet_buffer.rs) and the interrupt-disabling spinlocks (spinlock.rs). *)
(*                                                                         *)
(* Bytes are naturals in 0..255, byte strings are sequences (1-indexed:    *)
(* the Rust index i is the sequence index i + 1).  An Option is modelled   *)
(* by a distinguished value: NoPort for a port, the empty sequence for an  *)
(* address.                                                                *)
(*                                                                         *)
(* Specifications: Spec (system calls, NIC and handler), SpecRx (NIC and   *)
(* handler alone), SpecRing (SpecRx started near the end of the RX ring),  *)
(* SpecLock (socket() with the spinlock statement by statement), SpecTx    *)
(* (send and the handler with the TX ring at the level of descriptors),    *)
(* SpecMalformed (the handler on frames it cannot parse), SpecIcr (the     *)
(* handler and the interrupt causes), SpecArp (the handler on ARP          *)
(* traffic), SpecUdp (UDP delivery to bound sockets), SpecTxBacklog (send  *)
(* with the NIC behind on the TX ring), SpecRxFair (SpecRx with the        *)
(* scheduling of the handler).  Components on their own: SpecIp (the IPv4  *)
(* header), SpecEth (the Ethernet header), SpecBuf (the packet buffer),    *)
(* SpecSpin (one spinlock and its contenders), SpecE1000 (the              *)
(* initialization of the device).                                          *)
(***************************************************************************)
EXTENDS Integers, Sequences, FiniteSets, TLC

(***************************************************************************)
(* Bounds of the model.                                                    *)
(***************************************************************************)
\* system calls issued in one behaviour
MaxCalls == 3
\* frames the NIC writes into the RX ring in one behaviour
MaxFrames == 1
\* the frames the NIC receives in a behaviour of the ingress specification
MaxRxFrames == 2
\* lock() calls that return, on the spinlock taken on its own
MaxLockCalls == 3
\* records serialized into one packet buffer
MaxValues == 3

(***************************************************************************)
(* Program constants.                                                      *)
(***************************************************************************)
BUFFER_SIZE == 2048
\* send copies at most this many payload bytes
MaxSendLen == 1024
\* connect's ephemeral source port is EphemeralBase + socket_id
EphemeralBase == 1024
\* wire sizes reported by the size() methods
EthernetSize == 14
ArpSize == 28
Ipv4ParsedSize == 40
Ipv4HeaderSize == 20
UdpHeaderSize == 8
IcmpHeaderSize == 8
\* the CPU the NIC interrupt is routed to: ioapicenable(IRQ_PIC0, 0)
IrqCpu == 0
\* the PCI ids of the 82540EM
VENDOR_ID == 32902
DEVICE_ID == 4110
\* Option::None of a port
NoPort == -1
\* Option::None of an address
NoAddr == << >>

CPUS == {0, 1}

(***************************************************************************)
(* Bytes and big-endian integers.                                          *)
(***************************************************************************)
\* u16::to_be_bytes
BE16(x) == << (x \div 256) % 256, x % 256 >>

\* u16::from_be_bytes([b[i], b[i + 1]]), i a sequence index
U16At(b, i) == b[i] * 256 + b[i + 1]

\* `x as u16`
AsU16(x) == x % 65536

\* `x as i16`
AsI16(x) == IF x % 65536 >= 32768 THEN (x % 65536) - 65536 ELSE x % 65536

\* `x as u8`
AsU8(x) == x % 256

Min(a, b) == IF a < b THEN a ELSE b

\* the bytes of s from sequence index i to its end: &s[i - 1 ..]
From(s, i) == SubSeq(s, i, Len(s))

RECURSIVE SumSeq(_)
SumSeq(s) == IF s = << >> THEN 0 ELSE s[1] + SumSeq(Tail(s))

(***************************************************************************)
(* ip.rs: addresses and protocols.                                         *)
(***************************************************************************)
\* Ipv4Addr::from(u32): the four big-endian bytes
Ipv4Addr_from(x) ==
    << (x \div 16777216) % 256, (x \div 65536) % 256, (x \div 256) % 256, x % 256 >>

\* the u32 a caller passes for an address
U32OfIp(ip) == ip[1] * 16777216 + ip[2] * 65536 + ip[3] * 256 + ip[4]

\* the hard-coded device address 0x0A000002 = 10.0.0.2
DeviceIp == << 10, 0, 0, 2 >>

Protocol_from_slice(b) ==
    CASE b = 1 -> "ICMP"
      [] b = 6 -> "TCP"
      [] b = 17 -> "UDP"
      [] OTHER -> "UNKNOWN"

Protocol_as_bytes(p) ==
    CASE p = "ICMP" -> 1
      [] p = "TCP" -> 6
      [] p = "UDP" -> 17
      [] OTHER -> 255

(***************************************************************************)
(* ethernet.rs.                                                            *)
(***************************************************************************)
BroadcastMac == << 255, 255, 255, 255, 255, 255 >>

Ethertype_from_slice(b) ==
    LET v == U16At(b, 1)
    IN CASE v = 2048 -> "IPV4"
         [] v = 2054 -> "ARP"
         [] v = 2114 -> "WAKE_ON_LAN"
         [] v = 32821 -> "RARP"
         [] v = 33027 -> "SLPP"
         [] v = 34525 -> "IPV6"
         [] OTHER -> "UNKNOWN"

Ethertype_as_bytes(t) ==
    CASE t = "IPV4" -> BE16(2048)
      [] t = "ARP" -> BE16(2054)
      [] t = "WAKE_ON_LAN" -> BE16(2114)
      [] t = "RARP" -> BE16(2114)
      [] t = "SLPP" -> BE16(32821)
      [] t = "IPV6" -> BE16(33027)
      [] OTHER -> BE16(65535)

EthernetFrame_new(destination, source, ethertype) ==
    [destination |-> destination, source |-> source, ethertype |-> ethertype]

\* the slices &buf[0..6], &buf[6..12], &buf[12..14] panic on a shorter buffer
EthernetFrame_panics(b) == Len(b) < EthernetSize

EthernetFrame_from_slice(b) ==
    [destination |-> SubSeq(b, 1, 6),
     source |-> SubSeq(b, 7, 12),
     ethertype |-> Ethertype_from_slice(SubSeq(b, 13, 14))]

EthernetFrame_to_buffer(f) ==
    f.destination \o f.source \o Ethertype_as_bytes(f.ethertype)

(***************************************************************************)
(* arp.rs: the ARP packet.                                                 *)
(***************************************************************************)
Operation_from_slice(b, i) ==
    CASE U16At(b, i) = 1 -> "Request"
      [] U16At(b, i) = 2 -> "Reply"
      [] OTHER -> "Unknown"

Operation_as_bytes(o) ==
    CASE o = "Request" -> BE16(1)
      [] o = "Reply" -> BE16(2)
      [] OTHER -> BE16(65535)

\* from_slice indexes up to buf[27]
ArpPacket_panics(b) == Len(b) < ArpSize

ArpPacket_from_slice(b) ==
    [oper |-> Operation_from_slice(b, 7),
     sha |-> SubSeq(b, 9, 14),
     spa |-> SubSeq(b, 15, 18),
     tha |-> SubSeq(b, 19, 24),
     tpa |-> SubSeq(b, 25, 28)]

\* a reply that copies the request's addresses without swapping them
ArpPacket_from_request_unswapped(request, mac_address) ==
    [oper |-> "Reply",
     sha |-> mac_address,
     spa |-> request.spa,
     tha |-> request.tha,
     tpa |-> request.tpa]

ArpPacket_from_request(request, mac_address) ==
    [oper |-> "Reply",
     sha |-> mac_address,
     spa |-> request.tpa,
     tha |-> request.sha,
     tpa |-> request.spa]

\* htype Ethernet, ptype Ipv4, hlen 6, plen 4 in every packet the stack builds
ArpPacket_to_buffer(p) ==
    BE16(1) \o BE16(2048) \o << 6, 4 >> \o Operation_as_bytes(p.oper)
        \o p.sha \o p.spa \o p.tha \o p.tpa

(***************************************************************************)
(* ip.rs: the IPv4 header.                                                 *)
(***************************************************************************)
Ipv4Packet_new(dscp, ecn, total_length, identification, df, mf, fragment_offset, time_to_live, protocol, source_address, destination_address) ==
    [version |-> 4,
     header_length |-> 5,
     dscp |-> dscp,
     ecn |-> ecn,
     total_length |-> total_length,
     identification |-> identification,
     df |-> df,
     mf |-> mf,
     fragment_offset |-> fragment_offset,
     time_to_live |-> time_to_live,
     protocol |-> protocol,
     header_checksum |-> 0,
     source_address |-> source_address,
     destination_address |-> destination_address]

\* from_slice indexes up to buf[19]
Ipv4Packet_panics(b) == Len(b) < Ipv4HeaderSize

Ipv4Packet_from_slice(b) ==
    [version |-> b[1] \div 16,
     header_length |-> b[1] % 16,
     dscp |-> b[2] - (b[2] % 4),
     ecn |-> b[2] % 4,
     total_length |-> U16At(b, 3),
     identification |-> U16At(b, 5),
     df |-> (b[7] \div 64) % 2 = 1,
     mf |-> (b[7] \div 32) % 2 = 1,
     fragment_offset |-> (b[7] % 32) * 256 + b[8],
     time_to_live |-> b[9],
     protocol |-> Protocol_from_slice(b[10]),
     header_checksum |-> U16At(b, 11),
     source_address |-> SubSeq(b, 13, 16),
     destination_address |-> SubSeq(b, 17, 20)]

\* the ten big-endian words of a 20-byte header, summed into a u32
Ipv4WordSum(b) == SumSeq([k \in 1..10 |-> U16At(b, 2 * k - 1)])

\* a checksum that drops the carries of the sum instead of folding them in
Ipv4Packet_calculate_checksum_no_carry(b) == 65535 - (Ipv4WordSum(b) % 65536)

Ipv4Packet_calculate_checksum(b) ==
    LET sum == Ipv4WordSum(b)
        check1 == (sum \div 65536) + (sum % 65536)
        check2 == (check1 \div 65536) + check1
    IN 65535 - (check2 % 65536)

\* the flags half-word: df and mf are both shifted to bit 14 and or-ed
Ipv4FlagsHalf(p) ==
    (IF p.df \/ p.mf THEN 16384 ELSE 0) + (p.fragment_offset % 4096)

\* the 20 bytes with the checksum field still zero
Ipv4HeaderZeroChecksum(p) ==
    << (((p.version % 16) * 16) % 256) + (p.header_length % 16),
       (p.dscp - (p.dscp % 4)) + (p.ecn % 4) >>
        \o BE16(p.total_length) \o BE16(p.identification)
        \o BE16(Ipv4FlagsHalf(p))
        \o << p.time_to_live, Protocol_as_bytes(p.protocol) >>
        \o BE16(0)
        \o p.source_address \o p.destination_address

\* a write that leaves the checksum field zero
Ipv4Packet_write_no_checksum(p) == Ipv4HeaderZeroChecksum(p)

Ipv4Packet_write(p) ==
    LET bytes == Ipv4HeaderZeroChecksum(p)
        checksum == BE16(Ipv4Packet_calculate_checksum(bytes))
    IN [i \in 1..20 |-> IF i = 11 THEN checksum[1]
                        ELSE IF i = 12 THEN checksum[2] ELSE bytes[i]]

\* impl ToBuffer for Ipv4Packet: the 20 bytes write() produces
Ipv4Packet_to_buffer(p) == Ipv4Packet_write(p)

(***************************************************************************)
(* udp.rs.                                                                 *)
(***************************************************************************)
UdpPacket_new(source_port, dest_port, data) ==
    [source_port |-> source_port,
     dest_port |-> dest_port,
     len |-> AsU16(Len(data) + 8),
     checksum |-> 0,
     data |-> data]

\* from_slice: Err on fewer than 8 bytes
UdpPacket_is_err(b) == Len(b) < UdpHeaderSize

\* data is everything after the header, to the end of the buffer
UdpPacket_from_slice(b) ==
    [source_port |-> U16At(b, 1),
     dest_port |-> U16At(b, 3),
     len |-> U16At(b, 5),
     checksum |-> U16At(b, 7),
     data |-> From(b, 9)]

\* the bytes to_buffer sums for the checksum
UdpChecksumData(p) ==
    BE16(p.source_port) \o BE16(p.dest_port) \o BE16(p.len) \o << 0, 17 >>
        \o << 0, AsU8(Len(p.data)), AsU8(Len(p.data) \div 256) >>
        \o p.data

\* chunks(2) ends in a one-byte chunk when the length is odd, and x[1] is
\* then out of bounds
UdpPacket_to_buffer_panics(p) == Len(UdpChecksumData(p)) % 2 = 1

UdpWordSum(p) ==
    LET d == UdpChecksumData(p)
    IN SumSeq([k \in 1..(Len(d) \div 2) |-> U16At(d, 2 * k - 1)])
        + (Len(d) \div 2)

\* the u16 sum overflows: a panic with overflow checks, a wrap without
UdpPacket_sum_overflows(p) == UdpWordSum(p) > 65535

UdpPacket_checksum(p) == 65535 - (UdpWordSum(p) % 65536)

UdpPacket_to_buffer(p) ==
    BE16(p.source_port) \o BE16(p.dest_port) \o BE16(p.len)
        \o BE16(UdpPacket_checksum(p)) \o p.data

(***************************************************************************)
(* icmp.rs.                                                                *)
(***************************************************************************)
Type_from_slice(b) ==
    CASE b = 0 -> "EchoReply"
      [] b = 1 -> "Reserved"
      [] b = 2 -> "Reserved"
      [] b = 3 -> "DestinationUnreachable"
      [] b = 4 -> "SourceQuench"
      [] b = 8 -> "EchoRequest"
      [] OTHER -> "Unknown"

\* from_slice: buf[0] on an empty buffer, panic!() on a type other than
\* EchoReply and EchoRequest, buf[1..8] on a short buffer
IcmpPacket_panics(b) ==
    \/ Len(b) < IcmpHeaderSize
    \/ Type_from_slice(b[1]) \notin {"EchoReply", "EchoRequest"}

IcmpPacket_from_slice(b) ==
    [type |-> Type_from_slice(b[1]),
     code |-> b[2],
     checksum |-> U16At(b, 3),
     identifier |-> U16At(b, 5),
     sequence_number |-> U16At(b, 7),
     data |-> From(b, 9)]

IcmpEchoMessage_from_request(req) ==
    [type |-> "EchoReply",
     code |-> 0,
     checksum |-> req.checksum,
     identifier |-> req.identifier,
     sequence_number |-> req.sequence_number,
     data |-> req.data]

\* Type::as_bytes of the two types a message can hold
IcmpType_as_bytes(t) == IF t = "EchoReply" THEN 0 ELSE 8

\* calculate_checksum reads buf[i + 1] for every even i below the length
IcmpPacket_to_buffer_panics(x) == (IcmpHeaderSize + Len(x.data)) % 2 = 1

IcmpZeroChecksum(x) ==
    << IcmpType_as_bytes(x.type), x.code >> \o BE16(0) \o BE16(x.identifier)
        \o BE16(x.sequence_number) \o x.data

IcmpPacket_calculate_checksum(b) ==
    LET sum == SumSeq([k \in 1..(Len(b) \div 2) |-> U16At(b, 2 * k - 1)])
        check1 == (sum \div 65536) + (sum % 65536)
        check2 == (check1 \div 65536) + check1
    IN 65535 - (check2 % 65536)

IcmpPacket_to_buffer(x) ==
    LET bytes == IcmpZeroChecksum(x)
        checksum == BE16(IcmpPacket_calculate_checksum(bytes))
    IN [i \in 1..Len(bytes) |-> IF i = 3 THEN checksum[1]
                                ELSE IF i = 4 THEN checksum[2] ELSE bytes[i]]

(***************************************************************************)
(* packet_buffer.rs.                                                       *)
(***************************************************************************)
PacketBuffer_new(size) ==
    [buf |-> [i \in 1..size |-> 0], offset |-> 0, written |-> FALSE]

PacketBuffer_new_from_bytes(data) ==
    [buf |-> data, offset |-> 0, written |-> FALSE]

\* parse: the slice &self.buf[self.offset..] panics when offset > len
PacketBuffer_parse_panics(pb) == pb.offset > Len(pb.buf)

\* parse: the bytes handed to from_buffer
PacketBuffer_rest(pb) == From(pb.buf, pb.offset + 1)

\* parse: the cursor after a value of the given size() was parsed
PacketBuffer_advance(pb, size) == [pb EXCEPT !.offset = pb.offset + size]

\* serialize: self.buf.len() - self.offset underflows past the capacity
PacketBuffer_serialize_panics(pb, bytes) == pb.offset + Len(bytes) > Len(pb.buf)

\* a serialize that writes the record at the front of the buffer
PacketBuffer_serialize_front(pb, bytes) ==
    [buf |-> SubSeq(pb.buf, 1, pb.offset) \o bytes
                \o SubSeq(pb.buf, pb.offset + Len(bytes) + 1, Len(pb.buf)),
     offset |-> pb.offset + Len(bytes),
     written |-> TRUE]

PacketBuffer_serialize(pb, bytes) ==
    LET offset == pb.offset + Len(bytes)
        start == Len(pb.buf) - offset
    IN [buf |-> SubSeq(pb.buf, 1, start) \o bytes
                    \o SubSeq(pb.buf, start + Len(bytes) + 1, Len(pb.buf)),
        offset |-> offset,
        written |-> TRUE]

PacketBuffer_len(pb) == pb.offset

\* the len() bytes starting at as_ptr(): what the driver copies out
PacketBuffer_live(pb) ==
    IF pb.written
    THEN SubSeq(pb.buf, Len(pb.buf) - pb.offset + 1, Len(pb.buf))
    ELSE SubSeq(pb.buf, 1, pb.offset)

(***************************************************************************)
(* The device: its addresses (e1000.rs) and the frames a peer puts on the  *)
(* wire.  The peer's frames follow the wire formats; they are the inputs   *)
(* of the ingress pipeline.                                                *)
(***************************************************************************)
\* the MAC read from the EEPROM
DeviceMac == << 82, 84, 0, 18, 52, 86 >>

PeerMac == << 170, 187, 204, 221, 238, 255 >>
PeerIp == << 10, 0, 0, 9 >>

\* a byte string of length n: 0, 1, 2, ...
Payload(n) == [i \in 1..n |-> (i - 1) % 256]

WireEthernet(dst, src, ethertype) == dst \o src \o BE16(ethertype)

\* an ARP Reply of the peer, addressed to the device
ArpReplyFrame ==
    WireEthernet(DeviceMac, PeerMac, 2054)
        \o BE16(1) \o BE16(2048) \o << 6, 4 >> \o BE16(2)
        \o PeerMac \o PeerIp \o DeviceMac \o DeviceIp

\* an IPv4 header of ihl 32-bit words (5: no options; the options are NOPs)
WireIpv4(ihl, protocol, payload_len, src, dst) ==
    LET zero == << 64 + ihl, 0 >> \o BE16(ihl * 4 + payload_len) \o BE16(0)
                    \o BE16(16384) \o << 64, protocol >> \o BE16(0) \o src \o dst
    IN [i \in 1..20 |->
            IF i = 11 THEN BE16(Ipv4Packet_calculate_checksum(zero))[1]
            ELSE IF i = 12 THEN BE16(Ipv4Packet_calculate_checksum(zero))[2]
            ELSE zero[i]]
        \o [i \in 1..(ihl * 4 - 20) |-> 1]

WireUdp(source_port, dest_port, data) ==
    BE16(source_port) \o BE16(dest_port) \o BE16(8 + Len(data)) \o BE16(0) \o data

\* an Ethernet/IPv4/UDP frame of the peer for the device
UdpFrame(ihl, dest_port, data) ==
    WireEthernet(DeviceMac, PeerMac, 2048)
        \o WireIpv4(ihl, 17, 8 + Len(data), PeerIp, DeviceIp)
        \o WireUdp(7000, dest_port, data)

\* a second station on the link, and an address that is not the device's
OtherMac == << 2, 0, 0, 0, 0, 1 >>
OtherIp == << 10, 0, 0, 7 >>

\* an ARP packet of a station (oper 1: a broadcast Request, 2: a Reply to
\* the device)
ArpFrame(oper, sha, spa, tpa) ==
    WireEthernet(IF oper = 1 THEN BroadcastMac ELSE DeviceMac, sha, 2054)
        \o BE16(1) \o BE16(2048) \o << 6, 4 >> \o BE16(oper)
        \o sha \o spa \o (IF oper = 1 THEN << 0, 0, 0, 0, 0, 0 >> ELSE DeviceMac)
        \o tpa

\* the Internet checksum (RFC 1071) of a byte string: the complement of the
\* one's-complement sum of its 16-bit words, an odd last byte padded with 0
InetChecksum(b) ==
    LET padded == IF Len(b) % 2 = 1 THEN b \o << 0 >> ELSE b
        sum == SumSeq([k \in 1..(Len(padded) \div 2) |-> U16At(padded, 2 * k - 1)])
        fold1 == (sum \div 65536) + (sum % 65536)
        fold2 == (fold1 \div 65536) + (fold1 % 65536)
    IN 65535 - fold2

\* an ICMP Echo message (RFC 792) with its checksum
WireIcmpEcho(type, identifier, sequence_number, data) ==
    LET zero == << type, 0 >> \o BE16(0) \o BE16(identifier)
                    \o BE16(sequence_number) \o data
    IN << type, 0 >> \o BE16(InetChecksum(zero)) \o From(zero, 5)

\* an Echo Request of the peer for the device
IcmpEchoFrame(ihl, data) ==
    WireEthernet(DeviceMac, PeerMac, 2048)
        \o WireIpv4(ihl, 1, 8 + Len(data), PeerIp, DeviceIp)
        \o WireIcmpEcho(8, 4660, 7, data)

(***************************************************************************)
(* The inputs of the model.                                                *)
(***************************************************************************)
Sids == 0..1
Domains == {0, 1}
BindAddrs == {U32OfIp(DeviceIp), U32OfIp(PeerIp)}
BindPorts == {9000, 70000}
ConnectPorts == {7000, 40000}
SendData == {Payload(1), Payload(4)}
RecvLens == {1, 32}
Frames ==
    {ArpReplyFrame, UdpFrame(5, 9000, Payload(16)), UdpFrame(10, 9000, Payload(3))}

\* the frames of the ingress specification: ARP Replies of two stations for
\* two addresses, ARP Requests for the device's address and for another,
\* Echo Requests without and with IPv4 options, of even and odd length, and
\* a UDP datagram
RxFrames ==
    {ArpFrame(2, PeerMac, PeerIp, DeviceIp), ArpFrame(2, OtherMac, PeerIp, DeviceIp),
     ArpFrame(2, OtherMac, OtherIp, DeviceIp),
     ArpFrame(1, PeerMac, PeerIp, DeviceIp), ArpFrame(1, PeerMac, PeerIp, OtherIp),
     IcmpEchoFrame(5, Payload(32)), IcmpEchoFrame(10, Payload(4)),
     IcmpEchoFrame(10, Payload(3)), UdpFrame(10, 9000, Payload(3))}

(***************************************************************************)
(* State.                                                                  *)
(***************************************************************************)
VARIABLES
    sockets,    \* SOCKETS: socket_id -> Socket
    arp_cache,  \* ARP_CACHE: protocol address -> hardware address
    lock,       \* the holder of each of the three spinlocks
    ncli,       \* the pushcli depth of each CPU
    tx_idx,     \* E1000::tx_idx
    rxq,        \* the frames in the RX ring the driver has not read yet
    irq,        \* the NIC interrupt is pending
    sys,        \* the system call in progress, or the last one that returned
    intr,       \* the interrupt handler, and the frame it handled last
    ncalls,     \* system calls issued
    nframes,    \* frames the NIC received
    issued,     \* the ids socket() returned, in call order
    e1000,      \* the RX ring: E1000::rx_idx, the registers RDH and RDT, the
                \* frames in the descriptors the driver has not read yet; the
                \* interrupt cause register ICR
    tx_ring,    \* the TX ring at the level of descriptors: TDH, TDT, the
                \* frames in the descriptors, the frames sent on the wire,
                \* the frames E1000::send was called with
    unit        \* a component taken on its own: a header that is encoded and
                \* decoded, a packet buffer, a spinlock and its contenders

vars == << sockets, arp_cache, lock, ncli, tx_idx, rxq, irq, sys, intr,
           ncalls, nframes, issued, e1000, tx_ring, unit >>

Locks == {"device", "arp", "sockets"}

TX_RING_LEN == 256
\* init_rx: the length of the RX descriptor ring
RX_RING_LEN == 256

BlankSocket ==
    [source_port |-> NoPort,
     source_address |-> NoAddr,
     dest_port |-> NoPort,
     dest_protocol_address |-> NoAddr,
     dest_hardware_address |-> NoAddr,
     buffer |-> << >>]

\* no system call was made yet
NoCall ==
    [pc |-> "idle", op |-> "none", cpu |-> 0, sid |-> 0, arg |-> 0,
     dst |-> NoAddr, data |-> << >>, pre |-> << >>, sent |-> << >>,
     miss |-> FALSE, reply_in_wait |-> FALSE, ret |-> 0]

\* the handler has not run yet
NoIntr ==
    [pc |-> "idle", frame |-> << >>, done |-> FALSE, kind |-> "none",
     sent |-> << >>]

\* no component is taken on its own
NoUnit == [op |-> "none"]

\* rustnetinit: the device registered with 10.0.0.2, empty table and cache
InitRest ==
    /\ sockets = << >>
    /\ arp_cache = << >>
    /\ lock = [l \in Locks |-> "free"]
    /\ ncli = [c \in CPUS |-> 0]
    /\ tx_idx = 1
    /\ rxq = << >>
    /\ irq = FALSE
    /\ sys = NoCall
    /\ intr = NoIntr
    /\ ncalls = 0
    /\ nframes = 0
    /\ issued = << >>

\* the RX ring with the driver and the NIC at descriptor start and no frame
\* pending: RDT is one behind (init_rx writes RDH = 0, RDT = 255)
E1000_rx_at(start) ==
    [rx_idx |-> start, rdh |-> start, rdt |-> (start + RX_RING_LEN - 1) % RX_RING_LEN,
     rx |-> << >>, icr |-> 0]

\* init_tx: TDH = TDT = 0, no descriptor written, nothing sent
E1000_tx_new == [tdh |-> 0, tdt |-> 0, tx |-> << >>, wire |-> << >>, log |-> << >>]

Init ==
    /\ InitRest
    /\ e1000 = E1000_rx_at(0)
    /\ tx_ring = E1000_tx_new
    /\ unit = NoUnit

(***************************************************************************)
(* spinlock.rs.  pushcli and popcli are the kernel's nested                *)
(* interrupt-disable counters.                                             *)
(***************************************************************************)
pushcli(n, cpu) == [n EXCEPT ![cpu] = @ + 1]

popcli(n, cpu) == [n EXCEPT ![cpu] = @ - 1]

\* interrupts are enabled on the CPU: no pushcli is outstanding
InterruptsEnabled(cpu) == ncli[cpu] = 0

\* Spinlock::lock succeeds: the compare-and-set finds the flag clear
CanLock(l) == lock[l] = "free"

(***************************************************************************)
(* net.rs: the socket table operations.                                    *)
(***************************************************************************)
\* BTreeMap::insert: a new key is added, an existing key's value replaced
MapInsert(m, k, v) == [x \in (DOMAIN m) \cup {k} |-> IF x = k THEN v ELSE m[x]]

MapRemove(m, k) == [x \in (DOMAIN m) \ {k} |-> m[x]]

\* create_socket: the id is the table's length
create_socket_id(socks) == Cardinality(DOMAIN socks)

create_socket(socks) == MapInsert(socks, create_socket_id(socks), BlankSocket)

\* a bind that takes the caller's address
bind_to_address(socks, sid, source_address, source_port) ==
    [socks EXCEPT ![sid] = [@ EXCEPT !.source_port = source_port,
                                     !.source_address = Ipv4Addr_from(source_address)]]

\* bind: the address argument is ignored
bind(socks, sid, source_address, source_port) ==
    [socks EXCEPT ![sid] = [@ EXCEPT !.source_port = source_port,
                                     !.source_address = DeviceIp]]

\* recv: the number of bytes copied out
recv_copy_size(buffer, len) == IF Len(buffer) > len THEN len ELSE Len(buffer)

\* recv: the bytes copied to the caller, &socket.buffer[..copy_size]
recv_data(buffer, len) == SubSeq(buffer, 1, recv_copy_size(buffer, len))

\* recv: Vec::truncate(new_size) keeps the first new_size bytes
recv_buffer(buffer, len) ==
    SubSeq(buffer, 1, Len(buffer) - recv_copy_size(buffer, len))

\* a shutdown that empties the table
shutdown_socket_all(socks, sid) == << >>

shutdown_socket(socks, sid) == MapRemove(socks, sid)

\* connect: the destination port conversion (dest_port as i16).try_into::<u16>()
\* fails, and unwrap() panics, on a negative i16
connect_port_panics(dest_port) == AsI16(dest_port) < 0

\* connect: the source fields, written before the destination port converts
connect_socket_source(s, sid) ==
    [s EXCEPT !.source_port = AsU16(EphemeralBase + sid),
              !.source_address = DeviceIp]

\* connect: the fields written once the hardware address is known
connect_socket(s, sid, dest_port, dest_protocol_address, dest_hardware_address) ==
    [connect_socket_source(s, sid) EXCEPT
              !.dest_port = AsI16(dest_port),
              !.dest_hardware_address = dest_hardware_address,
              !.dest_protocol_address = dest_protocol_address]

\* ArpCache::hardware_address
hardware_address(cache, protocol_address) ==
    IF protocol_address \in DOMAIN cache THEN cache[protocol_address] ELSE NoAddr

\* a cache that keeps the first entry of an address
ArpCache_reply_keep_first(cache, arp_packet) ==
    IF arp_packet.oper = "Reply" /\ arp_packet.spa \notin DOMAIN cache
    THEN MapInsert(cache, arp_packet.spa, arp_packet.sha) ELSE cache

\* ArpCache::reply
ArpCache_reply(cache, arp_packet) ==
    IF arp_packet.oper = "Reply"
    THEN MapInsert(cache, arp_packet.spa, arp_packet.sha)
    ELSE cache

\* a resolver that asks for the device's own address instead of the target's
resolve_own_address(protocol_address) ==
    LET arp_request == [oper |-> "Request",
                        sha |-> DeviceMac,
                        spa |-> DeviceIp,
                        tha |-> BroadcastMac,
                        tpa |-> DeviceIp]
        pb1 == PacketBuffer_serialize(PacketBuffer_new(BUFFER_SIZE),
                                      ArpPacket_to_buffer(arp_request))
        pb2 == PacketBuffer_serialize(pb1,
                    EthernetFrame_to_buffer(
                        EthernetFrame_new(BroadcastMac, DeviceMac, "ARP")))
    IN PacketBuffer_live(pb2)

\* ArpCache::resolve: the frame handed to the driver
resolve(protocol_address) ==
    LET arp_request == [oper |-> "Request",
                        sha |-> DeviceMac,
                        spa |-> DeviceIp,
                        tha |-> BroadcastMac,
                        tpa |-> protocol_address]
        pb1 == PacketBuffer_serialize(PacketBuffer_new(BUFFER_SIZE),
                                      ArpPacket_to_buffer(arp_request))
        pb2 == PacketBuffer_serialize(pb1,
                    EthernetFrame_to_buffer(
                        EthernetFrame_new(BroadcastMac, DeviceMac, "ARP")))
    IN PacketBuffer_live(pb2)

\* a send that does not advance tx_idx
e1000_send_idx_stuck(idx) == idx

\* E1000::send: the next transmit descriptor index
e1000_send_idx(idx) == IF idx + 1 = TX_RING_LEN THEN 0 ELSE idx + 1

\* a send that sets TDT one descriptor further than the one it wrote
e1000_send_tdt_ahead(ring, idx, frame) ==
    [ring EXCEPT !.tx = MapInsert(@, idx, frame),
                 !.tdt = e1000_send_idx(e1000_send_idx(idx)),
                 !.log = Append(@, frame)]

\* E1000::send at the level of descriptors: the frame is written to the
\* descriptor at tx_idx and TDT is set to the index after it
e1000_send(ring, idx, frame) ==
    [ring EXCEPT !.tx = MapInsert(@, idx, frame),
                 !.tdt = e1000_send_idx(idx),
                 !.log = Append(@, frame)]

\* send: at most 1024 bytes are sent
send_data_len(data) == IF Len(data) > MaxSendLen THEN MaxSendLen ELSE Len(data)

send_udp_packet(socket, data) ==
    UdpPacket_new(socket.source_port, socket.dest_port,
                  SubSeq(data, 1, send_data_len(data)))

\* send: an unwrap() of a None field, or the UDP serializer, panics before the
\* device lock is requested
send_panics(socket, data) ==
    \/ socket.source_port = NoPort
    \/ socket.dest_port = NoPort
    \/ UdpPacket_to_buffer_panics(send_udp_packet(socket, data))
    \/ socket.source_address = NoAddr
    \/ socket.dest_protocol_address = NoAddr

\* send: the frame handed to the driver
send_frame(socket, data) ==
    LET pb1 == PacketBuffer_serialize(PacketBuffer_new(BUFFER_SIZE),
                    UdpPacket_to_buffer(send_udp_packet(socket, data)))
        ip_packet == Ipv4Packet_new(0, 0, AsU16(PacketBuffer_len(pb1) + 20), 0,
                                    TRUE, FALSE, 0, 64, "UDP",
                                    socket.source_address,
                                    socket.dest_protocol_address)
        pb2 == PacketBuffer_serialize(pb1, Ipv4Packet_to_buffer(ip_packet))
        pb3 == PacketBuffer_serialize(pb2,
                    EthernetFrame_to_buffer(
                        EthernetFrame_new(socket.dest_hardware_address,
                                          DeviceMac, "IPV4")))
    IN PacketBuffer_live(pb3)

(***************************************************************************)
(* System calls.  One system call is in progress at a time; it runs on a   *)
(* CPU and is suspended while the interrupt handler runs on that CPU.      *)
(***************************************************************************)
\* the CPU is not running the interrupt handler
CanRun(cpu) == cpu # IrqCpu \/ intr.pc = "idle"

CanCall == sys.pc = "idle" /\ ncalls < MaxCalls

Call(op, cpu, sid, arg) ==
    [NoCall EXCEPT !.op = op, !.cpu = cpu, !.sid = sid, !.arg = arg,
                   !.pre = sockets]

\* sys_socket and create_socket
SysSocket(domain) ==
    /\ CanCall
    /\ domain = 0 => CanLock("sockets")
    /\ sockets' = IF domain = 0 THEN create_socket(sockets) ELSE sockets
    /\ sys' = [Call("socket", 0, 0, domain) EXCEPT
                 !.ret = IF domain = 0 THEN create_socket_id(sockets) ELSE -1]
    /\ issued' = IF domain = 0 THEN Append(issued, create_socket_id(sockets))
                 ELSE issued
    /\ ncalls' = ncalls + 1
    /\ UNCHANGED << unit, e1000, tx_ring, arp_cache, lock, ncli, tx_idx, rxq, irq, intr, nframes >>

\* sys_bind and bind
SysBind(sid, addr, port) ==
    /\ CanCall
    /\ port \in 0..65535 => CanLock("sockets")
    /\ LET ok == port \in 0..65535 /\ sid \in DOMAIN sockets
       IN /\ sockets' = IF ok THEN bind(sockets, sid, addr, port) ELSE sockets
          /\ sys' = [Call("bind", 0, sid, port) EXCEPT
                       !.dst = Ipv4Addr_from(addr),
                       !.ret = IF ok THEN 0 ELSE 1]
    /\ ncalls' = ncalls + 1
    /\ UNCHANGED << unit, e1000, tx_ring, issued, arp_cache, lock, ncli, tx_idx, rxq, irq, intr, nframes >>

\* sys_recv and recv
SysRecv(sid, len) ==
    /\ CanCall
    /\ CanLock("sockets")
    /\ IF sid \in DOMAIN sockets
       THEN /\ sockets' = [sockets EXCEPT
                             ![sid].buffer = recv_buffer(sockets[sid].buffer, len)]
            /\ sys' = [Call("recv", 0, sid, len) EXCEPT
                         !.ret = recv_copy_size(sockets[sid].buffer, len),
                         !.data = recv_data(sockets[sid].buffer, len)]
       ELSE /\ sockets' = sockets
            /\ sys' = [Call("recv", 0, sid, len) EXCEPT !.ret = -1]
    /\ ncalls' = ncalls + 1
    /\ UNCHANGED << unit, e1000, tx_ring, issued, arp_cache, lock, ncli, tx_idx, rxq, irq, intr, nframes >>

\* sys_shutdown and shutdown_socket
SysShutdown(sid) ==
    /\ CanCall
    /\ CanLock("sockets")
    /\ sockets' = IF sid \in DOMAIN sockets
                  THEN shutdown_socket(sockets, sid) ELSE sockets
    /\ sys' = [Call("shutdown", 0, sid, 0) EXCEPT
                 !.ret = IF sid \in DOMAIN sockets THEN 0 ELSE 1]
    /\ ncalls' = ncalls + 1
    /\ UNCHANGED << unit, e1000, tx_ring, issued, arp_cache, lock, ncli, tx_idx, rxq, irq, intr, nframes >>

\* connect, once the hardware address is known: write the socket, drop the
\* socket-table guard and return 0; a destination port that does not convert
\* panics with the guard still held
ConnectFinish(mac) ==
    IF connect_port_panics(sys.arg)
    THEN /\ sockets' = [sockets EXCEPT
                          ![sys.sid] = connect_socket_source(@, sys.sid)]
         /\ sys' = [sys EXCEPT !.pc = "halt"]
         /\ UNCHANGED << lock, ncli >>
    ELSE /\ sockets' = [sockets EXCEPT
                          ![sys.sid] = connect_socket(@, sys.sid, sys.arg,
                                                      sys.dst, mac)]
         /\ lock' = [lock EXCEPT !["sockets"] = "free"]
         /\ ncli' = popcli(ncli, sys.cpu)
         /\ sys' = [sys EXCEPT !.pc = "idle", !.ret = 0]

\* sys_connect, and connect up to the socket lookup
SysConnectBegin(cpu, sid, dst, port) ==
    /\ CanCall
    /\ CanRun(cpu)
    /\ CanLock("sockets")
    /\ IF sid \in DOMAIN sockets
       THEN /\ lock' = [lock EXCEPT !["sockets"] = "sys"]
            /\ ncli' = pushcli(ncli, cpu)
            /\ sys' = [Call("connect", cpu, sid, port) EXCEPT
                         !.pc = "c_cache", !.dst = Ipv4Addr_from(dst)]
       ELSE /\ sys' = [Call("connect", cpu, sid, port) EXCEPT
                         !.dst = Ipv4Addr_from(dst), !.ret = 1]
            /\ UNCHANGED << lock, ncli >>
    /\ ncalls' = ncalls + 1
    /\ UNCHANGED << unit, e1000, tx_ring, issued, sockets, arp_cache, tx_idx, rxq, irq, intr, nframes >>

\* connect: the first cache lookup, under the ARP-cache lock
SysConnectLookup ==
    /\ sys.pc = "c_cache"
    /\ CanRun(sys.cpu)
    /\ CanLock("arp")
    /\ IF hardware_address(arp_cache, sys.dst) # NoAddr
       THEN ConnectFinish(hardware_address(arp_cache, sys.dst))
       ELSE /\ sys' = [sys EXCEPT !.pc = "c_resolve", !.miss = TRUE]
            /\ UNCHANGED << sockets, lock, ncli >>
    /\ UNCHANGED << unit, e1000, tx_ring, issued, arp_cache, tx_idx, rxq, irq, intr, ncalls, nframes >>

\* connect: the request is sent under the device lock, which is then dropped
SysConnectResolve ==
    /\ sys.pc = "c_resolve"
    /\ CanRun(sys.cpu)
    /\ CanLock("device")
    /\ tx_idx' = e1000_send_idx(tx_idx)
    /\ sys' = [sys EXCEPT !.pc = "c_wait",
                          !.sent = Append(@, resolve(sys.dst))]
    /\ UNCHANGED << unit, e1000, tx_ring, issued, sockets, arp_cache, lock, ncli, rxq, irq, intr, ncalls,
                    nframes >>

\* the interrupt handler has a step to take: the interrupt can be delivered,
\* or the handler runs and is not spinning on a held lock
HandlerCanProgress ==
    \/ intr.pc = "idle" /\ irq /\ InterruptsEnabled(IrqCpu)
    \/ intr.pc = "lock_device" /\ CanLock("device")
    \/ intr.pc = "loop"
    \/ intr.pc = "lock_arp" /\ CanLock("arp")
    \/ intr.pc = "lock_sockets" /\ CanLock("sockets")

\* a lookup after the wait that falls back to the broadcast address
connect_after_wait_broadcast(cache, protocol_address) ==
    IF protocol_address \in DOMAIN cache THEN cache[protocol_address]
    ELSE BroadcastMac

\* connect: the lookup after the wait
connect_after_wait(cache, protocol_address) ==
    hardware_address(cache, protocol_address)

\* connect: the busy-wait ends and the cache is looked up again.  The wait of
\* CPU_FREQ_MHZ * 1_000_000 cycles is long against the handler's few steps: it
\* does not end while the handler has a step to take
SysConnectTimeout ==
    /\ sys.pc = "c_wait"
    /\ CanRun(sys.cpu)
    /\ ~HandlerCanProgress
    /\ CanLock("arp")
    /\ IF connect_after_wait(arp_cache, sys.dst) # NoAddr
       THEN ConnectFinish(connect_after_wait(arp_cache, sys.dst))
       ELSE /\ lock' = [lock EXCEPT !["sockets"] = "free"]
            /\ ncli' = popcli(ncli, sys.cpu)
            /\ sys' = [sys EXCEPT !.pc = "idle", !.ret = 1]
            /\ sockets' = sockets
    /\ UNCHANGED << unit, e1000, tx_ring, issued, arp_cache, tx_idx, rxq, irq, intr, ncalls, nframes >>

\* sys_send, and send up to the request for the device lock
SysSendBegin(cpu, sid, data) ==
    /\ CanCall
    /\ CanRun(cpu)
    /\ CanLock("sockets")
    /\ IF sid \in DOMAIN sockets
       THEN /\ lock' = [lock EXCEPT !["sockets"] = "sys"]
            /\ ncli' = pushcli(ncli, cpu)
            /\ \E overflow_checks \in
                    IF /\ ~send_panics(sockets[sid], data)
                       /\ UdpPacket_sum_overflows(send_udp_packet(sockets[sid], data))
                    THEN BOOLEAN ELSE {FALSE} :
                 sys' = [Call("send", cpu, sid, Len(data)) EXCEPT
                           !.data = data,
                           !.pc = IF send_panics(sockets[sid], data) \/ overflow_checks
                                  THEN "halt" ELSE "s_device"]
       ELSE /\ sys' = [Call("send", cpu, sid, Len(data)) EXCEPT
                         !.data = data, !.ret = -1]
            /\ UNCHANGED << lock, ncli >>
    /\ ncalls' = ncalls + 1
    /\ UNCHANGED << unit, e1000, tx_ring, issued, sockets, arp_cache, tx_idx, rxq, irq, intr, nframes >>

\* send: the frame is completed and handed to the driver under the device
\* lock; both guards are dropped on return
SysSendDeviceStep ==
    /\ sys.pc = "s_device"
    /\ CanRun(sys.cpu)
    /\ CanLock("device")
    /\ IF sockets[sys.sid].dest_hardware_address = NoAddr
       THEN /\ sys' = [sys EXCEPT !.pc = "halt"]
            /\ lock' = [lock EXCEPT !["device"] = "sys"]
            /\ ncli' = pushcli(ncli, sys.cpu)
            /\ tx_idx' = tx_idx
       ELSE /\ sys' = [sys EXCEPT
                         !.pc = "idle",
                         !.sent = Append(@, send_frame(sockets[sys.sid], sys.data)),
                         !.ret = send_data_len(sys.data)]
            /\ lock' = [lock EXCEPT !["sockets"] = "free"]
            /\ ncli' = popcli(ncli, sys.cpu)
            /\ tx_idx' = e1000_send_idx(tx_idx)
    /\ UNCHANGED << unit, e1000, issued, sockets, arp_cache, rxq, irq, intr, ncalls, nframes >>

SysSendDevice == SysSendDeviceStep /\ UNCHANGED tx_ring

(***************************************************************************)
(* net.rs: the ingress pipeline.  handle_packet is split into what it      *)
(* does with the frame alone (parse, build a reply) and what it does to    *)
(* the ARP cache or the socket table under their locks.                    *)
(***************************************************************************)
\* the buffer after parse::<EthernetFrame>()
AfterEthernet(frame) ==
    PacketBuffer_advance(PacketBuffer_new_from_bytes(frame), EthernetSize)

\* the buffer after parse::<Ipv4Packet>(): the cursor moves by size()
AfterIpv4(frame) == PacketBuffer_advance(AfterEthernet(frame), Ipv4ParsedSize)

\* handle_icmp: the reply buffer for an Echo Request
IcmpReplyBuffer(x) ==
    PacketBuffer_serialize(PacketBuffer_new(BUFFER_SIZE),
                           IcmpPacket_to_buffer(IcmpEchoMessage_from_request(x)))

IcmpReplyPanics(x) ==
    \/ IcmpPacket_to_buffer_panics(x)
    \/ IcmpHeaderSize + Len(x.data) + Ipv4HeaderSize + EthernetSize > BUFFER_SIZE

\* handle_packet, Protocol::ICMP: the IPv4 and Ethernet headers go in front
IcmpReplyFrame(frame) ==
    LET ethernet_frame == EthernetFrame_from_slice(frame)
        ip_packet == Ipv4Packet_from_slice(PacketBuffer_rest(AfterEthernet(frame)))
        x == IcmpPacket_from_slice(PacketBuffer_rest(AfterIpv4(frame)))
        pb1 == IcmpReplyBuffer(x)
        reply_ip == Ipv4Packet_new(0, 0, AsU16(PacketBuffer_len(pb1) + 20), 0,
                                   TRUE, FALSE, 0, 64, "ICMP", DeviceIp,
                                   ip_packet.source_address)
        pb2 == PacketBuffer_serialize(pb1, Ipv4Packet_to_buffer(reply_ip))
        pb3 == PacketBuffer_serialize(pb2,
                    EthernetFrame_to_buffer(
                        EthernetFrame_new(ethernet_frame.source, DeviceMac, "IPV4")))
    IN PacketBuffer_live(pb3)

\* handle_packet, Ethertype::ARP, a Request for the device's address
ArpReplyOut(frame) ==
    LET ethernet_frame == EthernetFrame_from_slice(frame)
        arp_packet == ArpPacket_from_slice(PacketBuffer_rest(AfterEthernet(frame)))
        pb1 == PacketBuffer_serialize(PacketBuffer_new(BUFFER_SIZE),
                    ArpPacket_to_buffer(ArpPacket_from_request(arp_packet, DeviceMac)))
        pb2 == PacketBuffer_serialize(pb1,
                    EthernetFrame_to_buffer(
                        EthernetFrame_new(ethernet_frame.source, DeviceMac, "ARP")))
    IN PacketBuffer_live(pb2)

handle_icmp_kind(frame) ==
    IF PacketBuffer_parse_panics(AfterIpv4(frame)) THEN "panic"
    ELSE IF IcmpPacket_panics(PacketBuffer_rest(AfterIpv4(frame))) THEN "panic"
    ELSE LET x == IcmpPacket_from_slice(PacketBuffer_rest(AfterIpv4(frame)))
         IN IF x.type # "EchoRequest" THEN "drop"
            ELSE IF IcmpReplyPanics(x) THEN "panic"
            ELSE "send"

handle_udp_kind(frame) ==
    IF PacketBuffer_parse_panics(AfterIpv4(frame)) THEN "panic"
    ELSE IF UdpPacket_is_err(PacketBuffer_rest(AfterIpv4(frame))) THEN "drop"
    ELSE "udp"

\* handle_arp answering every Request, whatever its target
handle_arp_kind_any_request(frame) ==
    IF ArpPacket_panics(PacketBuffer_rest(AfterEthernet(frame))) THEN "panic"
    ELSE LET arp_packet ==
                 ArpPacket_from_slice(PacketBuffer_rest(AfterEthernet(frame)))
         IN CASE arp_packet.oper = "Request" -> "send"
              [] arp_packet.oper = "Reply" -> "arp_reply"
              [] OTHER -> "drop"

handle_arp_kind(frame) ==
    IF ArpPacket_panics(PacketBuffer_rest(AfterEthernet(frame))) THEN "panic"
    ELSE LET arp_packet ==
                 ArpPacket_from_slice(PacketBuffer_rest(AfterEthernet(frame)))
         IN CASE arp_packet.oper = "Request" ->
                     IF arp_packet.tpa = DeviceIp THEN "send" ELSE "drop"
              [] arp_packet.oper = "Reply" -> "arp_reply"
              [] OTHER -> "drop"

\* what handle_packet does with a frame: "panic", "drop" (nothing), "send" (a
\* reply goes to the driver), "arp_reply" (the cache learns, under the ARP
\* lock), "udp" (handle_udp looks for a socket, under the socket-table lock)
handle_packet_kind(frame) ==
    IF EthernetFrame_panics(frame) THEN "panic"
    ELSE LET ethertype == EthernetFrame_from_slice(frame).ethertype
         IN CASE ethertype = "IPV4" ->
                    IF Ipv4Packet_panics(PacketBuffer_rest(AfterEthernet(frame)))
                    THEN "panic"
                    ELSE LET protocol ==
                                 Ipv4Packet_from_slice(
                                     PacketBuffer_rest(AfterEthernet(frame))).protocol
                         IN CASE protocol = "ICMP" -> handle_icmp_kind(frame)
                              [] protocol = "UDP" -> handle_udp_kind(frame)
                              [] OTHER -> "drop"
              [] ethertype = "ARP" -> handle_arp_kind(frame)
              [] OTHER -> "drop"

\* the reply handed to the driver when the kind is "send"
handle_packet_out(frame) ==
    IF EthernetFrame_from_slice(frame).ethertype = "ARP"
    THEN ArpReplyOut(frame) ELSE IcmpReplyFrame(frame)

\* the packet parse::<ArpPacket>() returned
handle_packet_arp(frame) ==
    ArpPacket_from_slice(PacketBuffer_rest(AfterEthernet(frame)))

\* the packet parse::<UdpPacket>() returned
handle_packet_udp(frame) ==
    UdpPacket_from_slice(PacketBuffer_rest(AfterIpv4(frame)))

\* handle_udp: the first socket, in id order, bound to the destination port
handle_udp_matches(socks, packet) ==
    {k \in DOMAIN socks : socks[k].source_port = packet.dest_port}

handle_udp_socket(socks, packet) ==
    CHOOSE k \in handle_udp_matches(socks, packet) :
        \A j \in handle_udp_matches(socks, packet) : k <= j

\* a check that lets the queue reach BUFFER_SIZE bytes
handle_udp_has_space_inclusive(buffer, data) == ~(Len(buffer) + Len(data) > BUFFER_SIZE)

\* handle_udp: the socket has room for the data
handle_udp_has_space(buffer, data) == ~(Len(buffer) + Len(data) >= BUFFER_SIZE)

\* handle_udp: the socket table afterwards
handle_udp(socks, packet) ==
    IF handle_udp_matches(socks, packet) = {} THEN socks
    ELSE LET id == handle_udp_socket(socks, packet)
         IN IF handle_udp_has_space(socks[id].buffer, packet.data)
            THEN [socks EXCEPT ![id].buffer = @ \o packet.data]
            ELSE socks

(***************************************************************************)
(* The NIC and the interrupt handler (netintr, handle_interrupt).          *)
(***************************************************************************)
\* InterruptMask: the cause bits of ICR
TXDW == 1
TXQE == 2
LSC == 4
RXSEQ == 8
RXDMTO == 16
RXO == 64
RXT0 == 128

InterruptMasks == {TXDW, TXQE, LSC, RXSEQ, RXDMTO, RXO, RXT0}

\* init_interrupts: the causes that raise the interrupt
IMS == TXDW + LSC + RXSEQ + RXDMTO + RXO + RXT0

\* `mask & bit != 0` for a single bit
mask_has(mask, bit) == (mask \div bit) % 2 = 1

\* the NIC sets a cause bit
nic_cause(icr, bit) == IF mask_has(icr, bit) THEN icr ELSE icr + bit

\* clear_interrupts: an else-if chain over the cause bits in the order TXDW,
\* TXQE, LSC, RXSEQ, RXDMTO, RXO, RXT0; only the RXO branch panics
clear_interrupts_panics(mask) ==
    /\ ~mask_has(mask, TXDW)
    /\ ~mask_has(mask, TXQE)
    /\ ~mask_has(mask, LSC)
    /\ ~mask_has(mask, RXSEQ)
    /\ ~mask_has(mask, RXDMTO)
    /\ mask_has(mask, RXO)

\* the NIC writes the frame into the descriptor at RDH and advances RDH; the
\* receive timer cause is set
nic_receive(dev, frame) ==
    [dev EXCEPT !.rx = MapInsert(@, dev.rdh, frame),
                !.rdh = (@ + 1) % RX_RING_LEN,
                !.icr = nic_cause(@, RXT0)]

\* E1000::recv: rx_idx after the descriptor is read
e1000_recv_idx(idx) == IF idx + 1 = RX_RING_LEN THEN 0 ELSE idx + 1

\* E1000::recv, rx_idx - 1 in u32: at rx_idx = 0 the subtraction overflows,
\* and where it wraps the value is 0xFFFFFFFF (written here as the i32 of
\* the same bits)
e1000_recv_rdt_overflows(idx) == idx = 0

\* a recv that writes rx_idx itself to RDT
e1000_recv_rdt_ahead(idx) == idx

e1000_recv_rdt(idx) == IF idx = 0 THEN -1 ELSE idx - 1

\* the NIC writes a frame into the RX ring and raises its interrupt
NicReceive(frame) ==
    /\ nframes < MaxFrames
    /\ rxq' = Append(rxq, frame)
    /\ e1000' = nic_receive(e1000, frame)
    /\ irq' = TRUE
    /\ nframes' = nframes + 1
    /\ sys' = IF sys.pc = "c_wait" /\ frame = ArpReplyFrame /\ sys.dst = PeerIp
              THEN [sys EXCEPT !.reply_in_wait = TRUE] ELSE sys
    /\ UNCHANGED << unit, tx_ring, issued, sockets, arp_cache, lock, ncli, tx_idx, intr, ncalls >>

\* the CPU takes the interrupt: only with interrupts enabled
IntrEnter ==
    /\ intr.pc = "idle"
    /\ irq
    /\ InterruptsEnabled(IrqCpu)
    /\ intr' = [intr EXCEPT !.pc = "lock_device"]
    /\ UNCHANGED << unit, e1000, tx_ring, issued, sockets, arp_cache, lock, ncli, tx_idx, rxq, irq, sys,
                    ncalls, nframes >>

\* handle_interrupt: NETWORK_DEVICE.lock() and clear_interrupts(), which
\* reads ICR (the read clears the register) and panics on a receiver overrun
IntrLockDevice ==
    /\ intr.pc = "lock_device"
    /\ CanLock("device")
    /\ lock' = [lock EXCEPT !["device"] = "intr"]
    /\ ncli' = pushcli(ncli, IrqCpu)
    /\ irq' = FALSE
    /\ e1000' = [e1000 EXCEPT !.icr = 0]
    /\ intr' = IF clear_interrupts_panics(e1000.icr)
               THEN [intr EXCEPT !.pc = "halt", !.kind = "overrun"]
               ELSE [intr EXCEPT !.pc = "loop"]
    /\ UNCHANGED << unit, tx_ring, issued, sockets, arp_cache, tx_idx, rxq, sys, ncalls, nframes >>

\* the drain loop: device.recv() and handle_packet up to its first lock
IntrRecvStep ==
    /\ intr.pc = "loop"
    /\ e1000.rx_idx # e1000.rdh
    /\ LET frame == e1000.rx[e1000.rx_idx]
           idx == e1000_recv_idx(e1000.rx_idx)
           kind == handle_packet_kind(frame)
       IN \E overflow_checks \in
                IF e1000_recv_rdt_overflows(idx) THEN BOOLEAN ELSE {FALSE} :
            /\ e1000' = [e1000 EXCEPT
                           !.rx_idx = idx,
                           !.rdt = IF overflow_checks THEN @ ELSE e1000_recv_rdt(idx),
                           !.rx = MapRemove(@, e1000.rx_idx)]
            /\ intr' = IF overflow_checks
                       THEN [pc |-> "halt", frame |-> frame, done |-> FALSE,
                             kind |-> "recv_panic", sent |-> << >>]
                       ELSE [pc |-> CASE kind = "panic" -> "halt"
                                      [] kind = "arp_reply" -> "lock_arp"
                                      [] kind = "udp" -> "lock_sockets"
                                      [] OTHER -> "loop",
                             frame |-> frame,
                             done |-> kind \in {"drop", "send"},
                             kind |-> kind,
                             sent |-> IF kind = "send"
                                      THEN << handle_packet_out(frame) >> ELSE << >>]
            /\ tx_idx' = IF kind = "send" /\ ~overflow_checks
                         THEN e1000_send_idx(tx_idx) ELSE tx_idx
    /\ rxq' = Tail(rxq)
    /\ UNCHANGED << unit, issued, sockets, arp_cache, lock, ncli, irq, sys, ncalls, nframes >>

IntrRecv == IntrRecvStep /\ UNCHANGED tx_ring

\* handle_arp, Operation::Reply: ARP_CACHE.lock() and reply()
IntrArpReply ==
    /\ intr.pc = "lock_arp"
    /\ CanLock("arp")
    /\ arp_cache' = ArpCache_reply(arp_cache, handle_packet_arp(intr.frame))
    /\ intr' = [intr EXCEPT !.pc = "loop", !.done = TRUE]
    /\ UNCHANGED << unit, e1000, tx_ring, issued, sockets, lock, ncli, tx_idx, rxq, irq, sys, ncalls, nframes >>

\* handle_udp: SOCKETS.lock() and the delivery
IntrUdp ==
    /\ intr.pc = "lock_sockets"
    /\ CanLock("sockets")
    /\ sockets' = handle_udp(sockets, handle_packet_udp(intr.frame))
    /\ intr' = [intr EXCEPT !.pc = "loop", !.done = TRUE]
    /\ UNCHANGED << unit, e1000, tx_ring, issued, arp_cache, lock, ncli, tx_idx, rxq, irq, sys, ncalls, nframes >>

\* the ring is empty: the device guard is dropped and the handler returns
IntrReturn ==
    /\ intr.pc = "loop"
    /\ e1000.rx_idx = e1000.rdh
    /\ lock' = [lock EXCEPT !["device"] = "free"]
    /\ ncli' = popcli(ncli, IrqCpu)
    /\ intr' = [intr EXCEPT !.pc = "idle"]
    /\ UNCHANGED << unit, e1000, tx_ring, issued, sockets, arp_cache, tx_idx, rxq, irq, sys, ncalls, nframes >>

Next ==
    \/ \E domain \in Domains : SysSocket(domain)
    \/ \E sid \in Sids, addr \in BindAddrs, port \in BindPorts :
            SysBind(sid, addr, port)
    \/ \E sid \in Sids, len \in RecvLens : SysRecv(sid, len)
    \/ \E sid \in Sids : SysShutdown(sid)
    \/ \E cpu \in CPUS, sid \in Sids, port \in ConnectPorts :
            SysConnectBegin(cpu, sid, U32OfIp(PeerIp), port)
    \/ SysConnectLookup
    \/ SysConnectResolve
    \/ SysConnectTimeout
    \/ \E cpu \in CPUS, sid \in Sids, data \in SendData :
            SysSendBegin(cpu, sid, data)
    \/ SysSendDevice
    \/ \E frame \in Frames : NicReceive(frame)
    \/ IntrEnter
    \/ IntrLockDevice
    \/ IntrRecv
    \/ IntrArpReply
    \/ IntrUdp
    \/ IntrReturn

Spec == Init /\ [][Next]_vars

(***************************************************************************)
(* The ingress specification: the NIC and the interrupt handler alone,     *)
(* with no system call in progress, over the frames of RxFrames.           *)
(***************************************************************************)
NicReceiveRx(frame) ==
    /\ nframes < MaxRxFrames
    /\ rxq' = Append(rxq, frame)
    /\ e1000' = nic_receive(e1000, frame)
    /\ irq' = TRUE
    /\ nframes' = nframes + 1
    /\ UNCHANGED << unit, tx_ring, issued, sockets, arp_cache, lock, ncli, tx_idx, intr, sys, ncalls >>

NextRx ==
    \/ \E frame \in RxFrames : NicReceiveRx(frame)
    \/ IntrEnter
    \/ IntrLockDevice
    \/ IntrRecv
    \/ IntrArpReply
    \/ IntrUdp
    \/ IntrReturn

SpecRx == Init /\ [][NextRx]_vars

(***************************************************************************)
(* The ingress specification with the scheduling of the handler: a pending *)
(* interrupt is delivered once interrupts are enabled, and the CPU goes on *)
(* with every step of the handler that is enabled.  The NIC is under no    *)
(* obligation to write frames.                                             *)
(***************************************************************************)
\* recv has a frame to take: the guard of IntrRecv
IntrRecvEnabled == intr.pc = "loop" /\ e1000.rx_idx # e1000.rdh

\* weak fairness of each step of the handler (that of IntrRecv with its
\* guard written out for ENABLED)
FairRx ==
    /\ WF_vars(IntrEnter)
    /\ WF_vars(IntrLockDevice)
    /\ ([]<>(~IntrRecvEnabled) \/ []<><<IntrRecv>>_vars)
    /\ WF_vars(IntrArpReply)
    /\ WF_vars(IntrUdp)
    /\ WF_vars(IntrReturn)

SpecRxFair == Init /\ [][NextRx]_vars /\ FairRx

(***************************************************************************)
(* The RX-ring specification: the ingress specification started with the   *)
(* driver and the NIC at a descriptor of RingStarts, so that a burst       *)
(* crosses the end of the ring.                                            *)
(***************************************************************************)
RingStarts == {0, 254, 255}

InitRing ==
    /\ InitRest
    /\ \E start \in RingStarts : e1000 = E1000_rx_at(start)
    /\ tx_ring = E1000_tx_new
    /\ unit = NoUnit

SpecRing == InitRing /\ [][NextRx]_vars

(***************************************************************************)
(* The TX-ring specification: send() on a connected socket and the         *)
(* replies of the interrupt handler, with E1000::send taken at the level   *)
(* of descriptors and the NIC transmitting the descriptors from TDH to     *)
(* TDT.                                                                    *)
(***************************************************************************)
\* the payloads sent, and the frame received, which the handler answers
TxData == {Payload(1), Payload(3)}
TxFrames == {ArpFrame(1, PeerMac, PeerIp, DeviceIp)}

\* tx_idx at the start: 1 after init_tx, 255 after 254 frames were sent
TxStarts == {1, 255}

\* socket 0 is connected to the peer, whose address the cache holds
InitTx ==
    /\ sockets = [k \in {0} |-> connect_socket(BlankSocket, 0, 7000, PeerIp, PeerMac)]
    /\ arp_cache = [k \in {PeerIp} |-> PeerMac]
    /\ issued = << 0 >>
    /\ lock = [l \in Locks |-> "free"]
    /\ ncli = [c \in CPUS |-> 0]
    /\ rxq = << >>
    /\ irq = FALSE
    /\ sys = NoCall
    /\ intr = NoIntr
    /\ ncalls = 0
    /\ nframes = 0
    /\ unit = NoUnit
    /\ e1000 = E1000_rx_at(1)
    /\ \E start \in TxStarts :
            /\ tx_idx = start
            /\ tx_ring = [E1000_tx_new EXCEPT !.tdh = IF start = 1 THEN 0 ELSE start,
                                              !.tdt = IF start = 1 THEN 0 ELSE start]

\* send: the frame goes into the descriptor at tx_idx
TxSendDevice ==
    /\ SysSendDeviceStep
    /\ tx_ring' = IF Len(sys'.sent) > Len(sys.sent)
                  THEN e1000_send(tx_ring, tx_idx, sys'.sent[Len(sys'.sent)])
                  ELSE tx_ring

\* the drain loop: a reply goes into the descriptor at tx_idx
TxIntrRecv ==
    /\ IntrRecvStep
    /\ tx_ring' = IF intr'.kind = "send"
                  THEN e1000_send(tx_ring, tx_idx, intr'.sent[1])
                  ELSE tx_ring

\* the NIC takes the descriptor at TDH, which is below TDT, and sends its
\* frame; a descriptor no send has written holds no frame
NicTransmit ==
    /\ tx_ring.tdh # tx_ring.tdt
    /\ tx_ring' = [tx_ring EXCEPT
                     !.tdh = (@ + 1) % TX_RING_LEN,
                     !.tx = MapRemove(@, tx_ring.tdh),
                     !.wire = IF tx_ring.tdh \in DOMAIN tx_ring.tx
                              THEN Append(@, tx_ring.tx[tx_ring.tdh]) ELSE @]
    /\ UNCHANGED << unit, sockets, arp_cache, lock, ncli, tx_idx, rxq, irq, sys, intr,
                    ncalls, nframes, issued, e1000 >>

NextTx ==
    \/ \E cpu \in CPUS, data \in TxData : SysSendBegin(cpu, 0, data)
    \/ TxSendDevice
    \/ \E frame \in TxFrames : NicReceiveRx(frame)
    \/ IntrEnter
    \/ IntrLockDevice
    \/ TxIntrRecv
    \/ IntrReturn
    \/ NicTransmit

SpecTx == InitTx /\ [][NextTx]_vars

(***************************************************************************)
(* The spinlock specification: socket() on either CPU with                 *)
(* Spinlock::lock and the guard's drop taken statement by statement        *)
(* (spinlock.rs), next to the NIC and the interrupt handler.               *)
(***************************************************************************)
\* create_socket, SOCKETS.lock(): the compare_exchange finds the flag clear
\* and sets it
SocketCompareExchange(cpu) ==
    /\ CanCall
    /\ CanRun(cpu)
    /\ CanLock("sockets")
    /\ lock' = [lock EXCEPT !["sockets"] = "sys"]
    /\ sys' = [Call("socket", cpu, 0, 0) EXCEPT !.pc = "on_lock"]
    /\ ncalls' = ncalls + 1
    /\ UNCHANGED << unit, e1000, tx_ring, issued, sockets, arp_cache, ncli, tx_idx, rxq, irq, intr, nframes >>

\* Spinlock::lock, on_lock(): pushcli, and the guard is returned
SocketOnLock ==
    /\ sys.pc = "on_lock"
    /\ CanRun(sys.cpu)
    /\ ncli' = pushcli(ncli, sys.cpu)
    /\ sys' = [sys EXCEPT !.pc = "held"]
    /\ UNCHANGED << unit, e1000, tx_ring, issued, sockets, arp_cache, lock, tx_idx, rxq, irq, intr, ncalls,
                    nframes >>

\* create_socket's insert, then the guard's drop: the flag is cleared
SocketDropStore ==
    /\ sys.pc = "held"
    /\ CanRun(sys.cpu)
    /\ sockets' = create_socket(sockets)
    /\ issued' = Append(issued, create_socket_id(sockets))
    /\ lock' = [lock EXCEPT !["sockets"] = "free"]
    /\ sys' = [sys EXCEPT !.pc = "on_unlock", !.ret = create_socket_id(sockets)]
    /\ UNCHANGED << unit, e1000, tx_ring, arp_cache, ncli, tx_idx, rxq, irq, intr, ncalls, nframes >>

\* the guard's drop, on_unlock(): popcli, and socket() returns
SocketOnUnlock ==
    /\ sys.pc = "on_unlock"
    /\ CanRun(sys.cpu)
    /\ ncli' = popcli(ncli, sys.cpu)
    /\ sys' = [sys EXCEPT !.pc = "idle"]
    /\ UNCHANGED << unit, e1000, tx_ring, issued, sockets, arp_cache, lock, tx_idx, rxq, irq, intr, ncalls,
                    nframes >>

NextLock ==
    \/ \E cpu \in CPUS : SocketCompareExchange(cpu)
    \/ SocketOnLock
    \/ SocketDropStore
    \/ SocketOnUnlock
    \/ \E frame \in RxFrames : NicReceiveRx(frame)
    \/ IntrEnter
    \/ IntrLockDevice
    \/ IntrRecv
    \/ IntrArpReply
    \/ IntrUdp
    \/ IntrReturn

SpecLock == Init /\ [][NextLock]_vars

(***************************************************************************)
(* The IPv4 header on its own: a header built by Ipv4Packet::new is        *)
(* serialized by write and the 20 bytes are parsed by from_slice.          *)
(***************************************************************************)
\* the network stack, which a component on its own does not touch
netvars == << sockets, arp_cache, lock, ncli, tx_idx, rxq, irq, sys, intr,
              ncalls, nframes, issued, e1000, tx_ring >>

InitNet ==
    /\ InitRest
    /\ e1000 = E1000_rx_at(0)
    /\ tx_ring = E1000_tx_new

Ipv4Lengths == {20, 60, 65535}
Ipv4Identifications == {0, 4889, 65535}
Ipv4FragmentOffsets == {0, 4095}
Ipv4Ttls == {64, 255}
Ipv4Protocols == {"ICMP", "TCP", "UDP"}
Ipv4Sources == {<< 10, 0, 0, 1 >>, << 255, 255, 255, 255 >>}
Ipv4Destinations == {<< 10, 0, 0, 2 >>, << 255, 255, 255, 255 >>}

\* the headers Ipv4Packet::new is called for
Ipv4Headers ==
    {Ipv4Packet_new(0, 0, len, id, df, mf, off, ttl, protocol, src, dst) :
        len \in Ipv4Lengths, id \in Ipv4Identifications, df \in BOOLEAN,
        mf \in BOOLEAN, off \in Ipv4FragmentOffsets, ttl \in Ipv4Ttls,
        protocol \in Ipv4Protocols, src \in Ipv4Sources, dst \in Ipv4Destinations}

InitIp ==
    /\ InitNet
    /\ \E header \in Ipv4Headers :
            unit = [op |-> "ip", pc |-> "new", header |-> header,
                     bytes |-> << >>, parsed |-> header]

\* Ipv4Packet::write into a 20-byte buffer
Ipv4Write ==
    /\ unit.op = "ip"
    /\ unit.pc = "new"
    /\ unit' = [unit EXCEPT !.pc = "written",
                              !.bytes = Ipv4Packet_write(unit.header)]
    /\ UNCHANGED netvars

\* Ipv4Packet::from_slice of the bytes written
Ipv4Parse ==
    /\ unit.op = "ip"
    /\ unit.pc = "written"
    /\ unit' = [unit EXCEPT !.pc = "parsed",
                              !.parsed = Ipv4Packet_from_slice(unit.bytes)]
    /\ UNCHANGED netvars

NextIp ==
    \/ Ipv4Write
    \/ Ipv4Parse

SpecIp == InitIp /\ [][NextIp]_vars

(***************************************************************************)
(* The Ethernet header on its own: a header built by EthernetFrame::new is *)
(* serialized by to_buffer and the 14 bytes are parsed by from_slice.      *)
(***************************************************************************)
EthernetAddresses == {DeviceMac, PeerMac, OtherMac, BroadcastMac}

\* the variants of Ethertype a header is built with
Ethertypes == {"IPV4", "ARP", "WAKE_ON_LAN", "RARP", "SLPP", "IPV6"}

InitEth ==
    /\ InitNet
    /\ \E destination \in EthernetAddresses, source \in EthernetAddresses, t \in Ethertypes :
            LET header == EthernetFrame_new(destination, source, t)
            IN unit = [op |-> "ethernet", pc |-> "new", header |-> header,
                        bytes |-> << >>, parsed |-> header]

\* impl ToBuffer for EthernetFrame, into a 14-byte buffer
EthernetWrite ==
    /\ unit.op = "ethernet"
    /\ unit.pc = "new"
    /\ unit' = [unit EXCEPT !.pc = "written",
                              !.bytes = EthernetFrame_to_buffer(unit.header)]
    /\ UNCHANGED netvars

\* impl FromBuffer for EthernetFrame, of the bytes written
EthernetParse ==
    /\ unit.op = "ethernet"
    /\ unit.pc = "written"
    /\ ~EthernetFrame_panics(unit.bytes)
    /\ unit' = [unit EXCEPT !.pc = "parsed",
                              !.parsed = EthernetFrame_from_slice(unit.bytes)]
    /\ UNCHANGED netvars

NextEth ==
    \/ EthernetWrite
    \/ EthernetParse

SpecEth == InitEth /\ [][NextEth]_vars

(***************************************************************************)
(* The ingress pipeline on frames it cannot parse: a frame cut short in    *)
(* each layer and an ICMP message that is not an echo, next to frames it   *)
(* can parse.                                                              *)
(***************************************************************************)
\* ten bytes: not a whole Ethernet header
ShortEthernetFrame == SubSeq(ArpReplyFrame, 1, 10)

\* an Ethernet header and ten bytes of an IPv4 header
ShortIpv4Frame ==
    WireEthernet(DeviceMac, PeerMac, 2048)
        \o SubSeq(WireIpv4(5, 1, 8, PeerIp, DeviceIp), 1, 10)

\* an Ethernet header and twenty bytes of an ARP packet
ShortArpFrame == SubSeq(ArpReplyFrame, 1, 34)

\* Ethernet, IPv4 and four bytes of an ICMP header
ShortIcmpFrame ==
    WireEthernet(DeviceMac, PeerMac, 2048)
        \o WireIpv4(10, 1, 4, PeerIp, DeviceIp)
        \o SubSeq(WireIcmpEcho(8, 4660, 7, << >>), 1, 4)

\* Ethernet, IPv4 and four bytes of a UDP header
ShortUdpFrame ==
    WireEthernet(DeviceMac, PeerMac, 2048)
        \o WireIpv4(10, 17, 4, PeerIp, DeviceIp)
        \o SubSeq(WireUdp(7000, 9000, << >>), 1, 4)

\* a whole ICMP message of type 3, Destination Unreachable
OtherIcmpFrame ==
    WireEthernet(DeviceMac, PeerMac, 2048)
        \o WireIpv4(10, 1, 8, PeerIp, DeviceIp)
        \o WireIcmpEcho(3, 0, 0, << >>)

MalformedFrames ==
    {ShortEthernetFrame, ShortIpv4Frame, ShortArpFrame, ShortIcmpFrame,
     ShortUdpFrame, OtherIcmpFrame}

\* the frames the pipeline parses: an ARP Reply, an Echo Request, a datagram
WellFormedFrames ==
    {ArpReplyFrame, IcmpEchoFrame(10, Payload(4)), UdpFrame(10, 9000, Payload(3))}

NextMalformed ==
    \/ \E frame \in MalformedFrames \cup WellFormedFrames : NicReceiveRx(frame)
    \/ IntrEnter
    \/ IntrLockDevice
    \/ IntrRecv
    \/ IntrArpReply
    \/ IntrUdp
    \/ IntrReturn

SpecMalformed == Init /\ [][NextMalformed]_vars

(***************************************************************************)
(* The interrupt causes: next to receiving frames the NIC sets any of the  *)
(* cause bits of ICR, among them the receiver overrun.                     *)
(***************************************************************************)
IcrFrames == {ArpReplyFrame, ArpFrame(1, PeerMac, PeerIp, DeviceIp)}

\* the NIC sets a cause bit, and raises the interrupt when IMS enables it
NicCause(bit) ==
    /\ e1000' = [e1000 EXCEPT !.icr = nic_cause(@, bit)]
    /\ irq' = (irq \/ mask_has(IMS, bit))
    /\ UNCHANGED << unit, tx_ring, issued, sockets, arp_cache, lock, ncli, tx_idx, rxq, intr, sys,
                    ncalls, nframes >>

NextIcr ==
    \/ \E frame \in IcrFrames : NicReceiveRx(frame)
    \/ \E bit \in InterruptMasks : NicCause(bit)
    \/ IntrEnter
    \/ IntrLockDevice
    \/ IntrRecv
    \/ IntrArpReply
    \/ IntrReturn

SpecIcr == Init /\ [][NextIcr]_vars

(***************************************************************************)
(* One spinlock on its own (spinlock.rs): the code running on each CPU and *)
(* the interrupt handler, which runs on IrqCpu in place of that CPU's      *)
(* code, call lock() and drop the guard, one atomic access or one          *)
(* pushcli/popcli per step.                                                *)
(***************************************************************************)
SpinProcs == {"cpu0", "cpu1", "intr"}

SpinCpu(p) == IF p = "cpu1" THEN 1 ELSE IrqCpu

\* the handler runs in place of the code of its CPU
SpinCanRun(p) == p = "intr" \/ SpinCpu(p) # IrqCpu \/ unit.pc["intr"] = "idle"

\* a swap that stores the new value whatever the flag holds
compare_exchange_blind(flag, current, new) == [ok |-> TRUE, val |-> new]

\* AtomicBool::compare_exchange(current, new, ..): one atomic step
compare_exchange(flag, current, new) ==
    [ok |-> flag = current, val |-> IF flag = current THEN new ELSE flag]

InitSpin ==
    /\ InitNet
    /\ unit = [op |-> "spinlock", flag |-> FALSE,
               pc |-> [p \in SpinProcs |-> "idle"], returned |-> << >>]

\* lock() is called; the handler is entered only with interrupts enabled
SpinCall(p) ==
    /\ unit.op = "spinlock"
    /\ unit.pc[p] = "idle"
    /\ SpinCanRun(p)
    /\ p = "intr" => InterruptsEnabled(IrqCpu)
    /\ Len(unit.returned) < MaxLockCalls
    /\ unit' = [unit EXCEPT !.pc[p] = "lock"]
    /\ UNCHANGED netvars

\* lock: the compare_exchange of one turn of the loop
SpinCompareExchange(p) ==
    /\ unit.op = "spinlock"
    /\ unit.pc[p] = "lock"
    /\ SpinCanRun(p)
    /\ LET r == compare_exchange(unit.flag, FALSE, TRUE)
       IN unit' = [unit EXCEPT !.flag = r.val,
                               !.pc[p] = IF r.ok THEN "on_lock" ELSE "lock"]
    /\ UNCHANGED netvars

\* lock: on_lock(), and the guard is returned
SpinOnLock(p) ==
    /\ unit.op = "spinlock"
    /\ unit.pc[p] = "on_lock"
    /\ SpinCanRun(p)
    /\ ncli' = pushcli(ncli, SpinCpu(p))
    /\ unit' = [unit EXCEPT !.pc[p] = "held", !.returned = Append(@, p)]
    /\ UNCHANGED << sockets, arp_cache, lock, tx_idx, rxq, irq, sys, intr,
                    ncalls, nframes, issued, e1000, tx_ring >>

\* the guard's drop: the store
SpinDropStore(p) ==
    /\ unit.op = "spinlock"
    /\ unit.pc[p] = "held"
    /\ SpinCanRun(p)
    /\ unit' = [unit EXCEPT !.flag = FALSE, !.pc[p] = "on_unlock"]
    /\ UNCHANGED netvars

\* the guard's drop: on_unlock()
SpinOnUnlock(p) ==
    /\ unit.op = "spinlock"
    /\ unit.pc[p] = "on_unlock"
    /\ SpinCanRun(p)
    /\ ncli' = popcli(ncli, SpinCpu(p))
    /\ unit' = [unit EXCEPT !.pc[p] = "idle"]
    /\ UNCHANGED << sockets, arp_cache, lock, tx_idx, rxq, irq, sys, intr,
                    ncalls, nframes, issued, e1000, tx_ring >>

NextSpin ==
    \/ \E p \in SpinProcs : SpinCall(p)
    \/ \E p \in SpinProcs : SpinCompareExchange(p)
    \/ \E p \in SpinProcs : SpinOnLock(p)
    \/ \E p \in SpinProcs : SpinDropStore(p)
    \/ \E p \in SpinProcs : SpinOnUnlock(p)

SpecSpin == InitSpin /\ [][NextSpin]_vars

(***************************************************************************)
(* The packet buffer on its own (packet_buffer.rs): records are serialized *)
(* into a fresh buffer, and the headers of a received frame are parsed     *)
(* from a buffer made of its bytes.                                        *)
(***************************************************************************)
BufCapacities == {34, 62, BUFFER_SIZE}

\* the Echo Reply to an Echo Request with a payload of 2042 bytes, which a
\* receive buffer of the NIC holds: 2050 bytes (its checksum is not filled
\* in: serialize does not get as far as to_buffer with it)
BufLongReply ==
    IcmpZeroChecksum([type |-> "EchoReply", code |-> 0, checksum |-> 0,
                      identifier |-> 4660, sequence_number |-> 7,
                      data |-> Payload(2042)])

\* the serialized bytes of the records: an ARP packet, an IPv4 header, an
\* Ethernet header, a three-byte record, and the long Echo Reply
BufValues ==
    {ArpPacket_to_buffer(ArpPacket_from_slice(From(ArpReplyFrame, 15))),
     Ipv4Packet_to_buffer(Ipv4Packet_new(0, 0, 48, 0, TRUE, FALSE, 0, 64, "UDP", DeviceIp, PeerIp)),
     EthernetFrame_to_buffer(EthernetFrame_new(PeerMac, DeviceMac, "IPV4")),
     << 1, 2, 3 >>, BufLongReply}

BufFrames ==
    {ArpReplyFrame, UdpFrame(5, 9000, Payload(16)), IcmpEchoFrame(5, Payload(32)),
     UdpFrame(5, 9000, Payload(3))}

\* FromBuffer::size of the three headers
FromBuffer_size(type) ==
    CASE type = "EthernetFrame" -> EthernetSize
      [] type = "Ipv4Packet" -> Ipv4ParsedSize
      [] type = "ArpPacket" -> ArpSize

\* a buffer of PacketBuffer::new, or of PacketBuffer::new_from_bytes
InitBuf ==
    /\ InitNet
    /\ \/ \E size \in BufCapacities :
            unit = [op |-> "buffer", pc |-> "run", made |-> "new",
                    pb |-> PacketBuffer_new(size),
                    values |-> << >>, parsed |-> << >>]
       \/ \E frame \in BufFrames :
            unit = [op |-> "buffer", pc |-> "run", made |-> "new_from_bytes",
                    pb |-> PacketBuffer_new_from_bytes(frame),
                    values |-> << >>, parsed |-> << >>]

\* serialize(value) on a buffer of PacketBuffer::new; offset is raised before
\* the start of the slice is computed, where it panics
BufSerialize(bytes) ==
    /\ unit.op = "buffer"
    /\ unit.pc = "run"
    /\ unit.made = "new"
    /\ Len(unit.values) < MaxValues
    /\ unit' = IF PacketBuffer_serialize_panics(unit.pb, bytes)
               THEN [unit EXCEPT !.pc = "halt", !.pb.offset = @ + Len(bytes)]
               ELSE [unit EXCEPT !.pb = PacketBuffer_serialize(unit.pb, bytes),
                                 !.values = Append(@, bytes)]
    /\ UNCHANGED netvars

\* parse::<T>() on the buffer of a received frame, in the order of
\* handle_packet: the Ethernet header, then IPv4 or ARP by the ethertype
BufParse(type) ==
    /\ unit.op = "buffer"
    /\ unit.pc = "run"
    /\ unit.made = "new_from_bytes"
    /\ IF unit.parsed = << >> THEN type = "EthernetFrame"
       ELSE /\ Len(unit.parsed) = 1
            /\ type = (IF EthernetFrame_from_slice(unit.pb.buf).ethertype = "ARP"
                       THEN "ArpPacket" ELSE "Ipv4Packet")
    /\ unit' = IF PacketBuffer_parse_panics(unit.pb)
               THEN [unit EXCEPT !.pc = "halt"]
               ELSE [unit EXCEPT !.pb = PacketBuffer_advance(unit.pb, FromBuffer_size(type)),
                                 !.parsed = Append(@, type)]
    /\ UNCHANGED netvars

NextBuf ==
    \/ \E bytes \in BufValues : BufSerialize(bytes)
    \/ \E type \in {"EthernetFrame", "Ipv4Packet", "ArpPacket"} : BufParse(type)

SpecBuf == InitBuf /\ [][NextBuf]_vars

(***************************************************************************)
(* The initialization of the device on its own (E1000::new): the PCI bus   *)
(* holds any of three kinds of device in each of its first four slots.     *)
(***************************************************************************)
\* the vendor and device ids a slot of the bus answers with: the 82540EM,
\* another Intel device, an empty slot
PciIds ==
    {[vendor_id |-> VENDOR_ID, device_id |-> DEVICE_ID],
     [vendor_id |-> VENDOR_ID, device_id |-> DEVICE_ID + 1],
     [vendor_id |-> 65535, device_id |-> 65535]}

\* `for device in 0..4`
PciDevices == 0..3

\* no device was found yet: Option::None
NoDevice == -1

\* a probe that compares the vendor id alone
e1000_matches_vendor(ids) == ids.vendor_id = VENDOR_ID

\* new: vendor_id == VENDOR_ID && device_id == DEVICE_ID
e1000_matches(ids) == ids.vendor_id = VENDOR_ID /\ ids.device_id = DEVICE_ID

InitE1000 ==
    /\ InitNet
    /\ \E bus \in [PciDevices -> PciIds] :
            unit = [op |-> "init", pc |-> "probe", bus |-> bus, device |-> 0,
                    target_device |-> NoDevice, steps |-> << >>,
                    rx_idx |-> 0, tx_idx |-> 0, rdh |-> NoDevice, rdt |-> NoDevice,
                    tdh |-> NoDevice, tdt |-> NoDevice, ims |-> 0]

\* new: one turn of the enumeration loop, and the panic after the last
E1000Probe ==
    /\ unit.op = "init"
    /\ unit.pc = "probe"
    /\ unit' = IF e1000_matches(unit.bus[unit.device])
               THEN [unit EXCEPT !.target_device = unit.device, !.pc = "set_bus_master"]
               ELSE IF unit.device + 1 \in PciDevices
               THEN [unit EXCEPT !.device = @ + 1]
               ELSE [unit EXCEPT !.pc = "halt"]
    /\ UNCHANGED netvars

\* pci::set_bus_master(target_device)
E1000SetBusMaster ==
    /\ unit.op = "init"
    /\ unit.pc = "set_bus_master"
    /\ unit' = [unit EXCEPT !.pc = "read_bar", !.steps = Append(@, "set_bus_master")]
    /\ UNCHANGED netvars

\* mmio_base = pci::read_bar(target_device, 0)
E1000ReadBar ==
    /\ unit.op = "init"
    /\ unit.pc = "read_bar"
    /\ unit' = [unit EXCEPT !.pc = "read_mac", !.steps = Append(@, "read_bar")]
    /\ UNCHANGED netvars

\* the three EERD reads of the MAC address
E1000ReadMac ==
    /\ unit.op = "init"
    /\ unit.pc = "read_mac"
    /\ unit' = [unit EXCEPT !.pc = "init_rx", !.steps = Append(@, "read_mac")]
    /\ UNCHANGED netvars

\* init_rx: RDH = 0, RDT = rx.len() - 1
E1000InitRx ==
    /\ unit.op = "init"
    /\ unit.pc = "init_rx"
    /\ unit' = [unit EXCEPT !.pc = "init_tx", !.steps = Append(@, "init_rx"),
                            !.rdh = E1000_rx_at(0).rdh, !.rdt = E1000_rx_at(0).rdt]
    /\ UNCHANGED netvars

\* init_tx: tx_idx = 1, TDH = TDT = 0
E1000InitTx ==
    /\ unit.op = "init"
    /\ unit.pc = "init_tx"
    /\ unit' = [unit EXCEPT !.pc = "init_interrupts", !.steps = Append(@, "init_tx"),
                            !.tx_idx = 1, !.tdh = E1000_tx_new.tdh, !.tdt = E1000_tx_new.tdt]
    /\ UNCHANGED netvars

\* init_interrupts: IMS
E1000InitInterrupts ==
    /\ unit.op = "init"
    /\ unit.pc = "init_interrupts"
    /\ unit' = [unit EXCEPT !.pc = "ioapicenable", !.steps = Append(@, "init_interrupts"),
                            !.ims = IMS]
    /\ UNCHANGED netvars

\* ioapicenable(IRQ_PIC0, 0), and new returns
E1000Ioapicenable ==
    /\ unit.op = "init"
    /\ unit.pc = "ioapicenable"
    /\ unit' = [unit EXCEPT !.pc = "done", !.steps = Append(@, "ioapicenable")]
    /\ UNCHANGED netvars

NextE1000 ==
    \/ E1000Probe
    \/ E1000SetBusMaster
    \/ E1000ReadBar
    \/ E1000ReadMac
    \/ E1000InitRx
    \/ E1000InitTx
    \/ E1000InitInterrupts
    \/ E1000Ioapicenable

SpecE1000 == InitE1000 /\ [][NextE1000]_vars

(***************************************************************************)
(* The handler on ARP traffic: Requests for the device and for another     *)
(* station, a Reply, and packets with an operation that is neither.        *)
(***************************************************************************)
\* the ARP operations a station puts on the wire: Request, Reply, and two
\* that are neither (3 is the RARP request, 65535 what as_bytes writes for
\* Operation::Unknown)
ArpOperations == {1, 2, 3, 65535}

ArpFrames ==
    {ArpFrame(oper, PeerMac, PeerIp, tpa) : oper \in ArpOperations, tpa \in {DeviceIp, OtherIp}}

NextArp ==
    \/ \E frame \in ArpFrames \cup {UdpFrame(10, 9000, Payload(3))} : NicReceiveRx(frame)
    \/ IntrEnter
    \/ IntrLockDevice
    \/ IntrRecv
    \/ IntrArpReply
    \/ IntrUdp
    \/ IntrReturn

SpecArp == Init /\ [][NextArp]_vars

(***************************************************************************)
(* The TX ring with a backlog: send calls made when the NIC has fallen     *)
(* behind, up to the point where TDT comes round to TDH.                   *)
(***************************************************************************)
\* the descriptors written and not yet sent by the NIC at the start: none,
\* one, and all that 254 sends wrote since init_tx
TxBacklogs == {0, 1, 253, 254}

\* the datagram in the descriptors of the backlog
TxBacklogFrame ==
    send_frame(connect_socket(BlankSocket, 0, 7000, PeerIp, PeerMac), Payload(1))

\* socket 0 is connected; 254 sends since init_tx took tx_idx and TDT from 1
\* to 255, and the NIC has sent all but the last frames of them (log and
\* wire record the sends and the transmissions from here on)
InitTxBacklog ==
    /\ sockets = [k \in {0} |-> connect_socket(BlankSocket, 0, 7000, PeerIp, PeerMac)]
    /\ arp_cache = [k \in {PeerIp} |-> PeerMac]
    /\ issued = << 0 >>
    /\ lock = [l \in Locks |-> "free"]
    /\ ncli = [c \in CPUS |-> 0]
    /\ rxq = << >>
    /\ irq = FALSE
    /\ sys = NoCall
    /\ intr = NoIntr
    /\ ncalls = 0
    /\ nframes = 0
    /\ unit = NoUnit
    /\ e1000 = E1000_rx_at(1)
    /\ tx_idx = 255
    /\ \E backlog \in TxBacklogs :
            tx_ring = [E1000_tx_new EXCEPT
                         !.tdh = IF backlog = 254 THEN 0 ELSE 255 - backlog,
                         !.tdt = 255,
                         !.tx = [i \in (255 - backlog)..254 |-> TxBacklogFrame]]

NextTxBacklog ==
    \/ \E cpu \in CPUS, data \in TxData : SysSendBegin(cpu, 0, data)
    \/ TxSendDevice
    \/ NicTransmit

SpecTxBacklog == InitTxBacklog /\ [][NextTxBacklog]_vars

(***************************************************************************)
(* UDP delivery: four sockets, two of them bound to the same port, with    *)
(* receive queues up to their limit, datagrams from the peer and recv.     *)
(***************************************************************************)
\* the bytes in the receive queue of a bound socket at the start
UdpFills == {0, 2046, 2047}

\* the port the bytes 14 and 15 of Payload(n) spell
UdpPayloadPort == 14 * 256 + 15

\* datagrams behind a 40-byte IPv4 header for port 9000 and for port 65535,
\* to which nobody is bound, and one behind a 20-byte IPv4 header
UdpFrames ==
    {UdpFrame(10, 9000, Payload(1)), UdpFrame(10, 9000, Payload(2)),
     UdpFrame(10, 65535, Payload(1)), UdpFrame(5, 9000, Payload(32))}

\* a socket after create_socket and bind to port, with fill bytes delivered
UdpBoundSocket(port, fill) ==
    [bind(create_socket(<< >>), 0, 0, port)[0] EXCEPT !.buffer = Payload(fill)]

\* socket 0 was created, sockets 1 and 2 were bound to port 9000 and socket
\* 3 to another port; datagrams were delivered before
InitUdp ==
    /\ arp_cache = << >>
    /\ lock = [l \in Locks |-> "free"]
    /\ ncli = [c \in CPUS |-> 0]
    /\ tx_idx = 1
    /\ rxq = << >>
    /\ irq = FALSE
    /\ sys = NoCall
    /\ intr = NoIntr
    /\ ncalls = 0
    /\ nframes = 0
    /\ issued = << 0, 1, 2, 3 >>
    /\ e1000 = E1000_rx_at(0)
    /\ tx_ring = E1000_tx_new
    /\ unit = NoUnit
    /\ \E fill \in UdpFills :
          sockets = (0 :> BlankSocket)
                    @@ (1 :> UdpBoundSocket(9000, fill))
                    @@ (2 :> UdpBoundSocket(9000, 0))
                    @@ (3 :> UdpBoundSocket(UdpPayloadPort, 0))

NextUdp ==
    \/ \E frame \in UdpFrames : NicReceiveRx(frame)
    \/ \E len \in RecvLens : SysRecv(1, len)
    \/ IntrEnter
    \/ IntrLockDevice
    \/ IntrRecv
    \/ IntrUdp
    \/ IntrReturn

SpecUdp == InitUdp /\ [][NextUdp]_vars

(***************************************************************************)
(* The wire formats as the protocols define them (RFC 826, 791, 768),      *)
(* against which the frames of the program are read.                       *)
(***************************************************************************)
\* the broadcast ARP Request of the device for the address tpa
ArpRequestWire(tpa) ==
    WireEthernet(BroadcastMac, DeviceMac, 2054)
        \o BE16(1) \o BE16(2048) \o << 6, 4 >> \o BE16(1)
        \o DeviceMac \o DeviceIp \o BroadcastMac \o tpa

\* the frame is Ethernet/IPv4/UDP
WireIsUdp(frame) ==
    /\ Len(frame) >= 42
    /\ U16At(frame, 13) = 2048
    /\ frame[15] \div 16 = 4
    /\ frame[24] = 17

\* the sequence index of the UDP header: after the IHL words of the IPv4 header
WireUdpStart(frame) == 14 + 4 * (frame[15] % 16) + 1

WireUdpDestPort(frame) == U16At(frame, WireUdpStart(frame) + 2)

WireUdpPayload(frame) == From(frame, WireUdpStart(frame) + 8)

\* the frame carries the datagram the socket sends: the fields send is to set
WireIsDatagramOf(frame, socket, data) ==
    LET m == Min(Len(data), MaxSendLen)
    IN /\ Len(frame) = 42 + m
       /\ SubSeq(frame, 1, 6) = socket.dest_hardware_address
       /\ SubSeq(frame, 7, 12) = DeviceMac
       /\ U16At(frame, 13) = 2048
       /\ U16At(frame, 17) = 28 + m
       /\ (frame[21] \div 64) % 2 = 1
       /\ frame[23] = 64
       /\ frame[24] = 17
       /\ SubSeq(frame, 27, 30) = socket.source_address
       /\ SubSeq(frame, 31, 34) = socket.dest_protocol_address
       /\ U16At(frame, 35) = socket.source_port
       /\ U16At(frame, 37) = socket.dest_port
       /\ U16At(frame, 39) = 8 + m
       /\ From(frame, 43) = SubSeq(data, 1, m)

\* the socket table after the delivery of a datagram to the socket bound to
\* port, when there is one with room
Delivered(socks, port, payload) ==
    LET bound == {k \in DOMAIN socks : socks[k].source_port = port}
    IN IF bound = {} THEN socks
       ELSE LET s == CHOOSE k \in bound : \A j \in bound : k <= j
            IN IF Len(socks[s].buffer) + Len(payload) < BUFFER_SIZE
               THEN [socks EXCEPT ![s].buffer = @ \o payload]
               ELSE socks

\* the frame is Ethernet/ARP
WireIsArp(frame) == Len(frame) >= 42 /\ U16At(frame, 13) = 2054

\* the fields of the ARP packet of a frame (RFC 826)
WireArp(frame) ==
    [oper |-> U16At(frame, 21),
     sha |-> SubSeq(frame, 23, 28),
     spa |-> SubSeq(frame, 29, 32),
     tha |-> SubSeq(frame, 33, 38),
     tpa |-> SubSeq(frame, 39, 42)]

\* the frame is Ethernet/IPv4/ICMP with an Echo Request inside
WireIsEchoRequest(frame) ==
    /\ Len(frame) >= 42
    /\ U16At(frame, 13) = 2048
    /\ frame[15] \div 16 = 4
    /\ frame[24] = 1
    /\ Len(frame) >= 14 + 4 * (frame[15] % 16) + 8
    /\ frame[14 + 4 * (frame[15] % 16) + 1] = 8

\* the ICMP message of an Ethernet/IPv4/ICMP frame: what follows the IHL
\* words of the IPv4 header
WireIcmp(frame) == From(frame, 14 + 4 * (frame[15] % 16) + 1)

\* the frame is the Echo Reply the request calls for
WireIsEchoReplyTo(out, request) ==
    LET q == WireIcmp(request)
        r == WireIcmp(out)
    IN /\ Len(out) = 34 + Len(q)
       /\ SubSeq(out, 1, 6) = SubSeq(request, 7, 12)
       /\ SubSeq(out, 7, 12) = DeviceMac
       /\ U16At(out, 13) = 2048
       /\ out[15] = 69
       /\ U16At(out, 17) = 20 + Len(q)
       /\ (out[21] \div 64) % 2 = 1
       /\ out[23] = 64
       /\ out[24] = 1
       /\ SubSeq(out, 27, 30) = DeviceIp
       /\ SubSeq(out, 31, 34) = SubSeq(request, 27, 30)
       /\ r[1] = 0 /\ r[2] = 0
       /\ From(r, 5) = From(q, 5)
       /\ InetChecksum(r) = 0

\* the lock the system call in progress requests next: connect asks for the
\* ARP cache (first lookup, and again after the wait) and for the device
\* (resolve), send for the device
SysRequests ==
    CASE sys.pc \in {"c_cache", "c_wait"} -> "arp"
      [] sys.pc \in {"c_resolve", "s_device"} -> "device"
      [] OTHER -> "none"

\* the lock the interrupt handler requests next
IntrRequests ==
    CASE intr.pc = "lock_device" -> "device"
      [] intr.pc = "lock_arp" -> "arp"
      [] intr.pc = "lock_sockets" -> "sockets"
      [] OTHER -> "none"

\* the descriptors the NIC is to send: from TDH up to TDT, around the ring
TxExposed ==
    [i \in 1..((tx_ring.tdt - tx_ring.tdh + TX_RING_LEN) % TX_RING_LEN) |->
        (tx_ring.tdh + i - 1) % TX_RING_LEN]

\* the frames the NIC is to send, in the order it sends them
TxPending ==
    LET Written(slot) == slot \in DOMAIN tx_ring.tx
        slots == SelectSeq(TxExposed, Written)
    IN [i \in 1..Len(slots) |-> tx_ring.tx[slots[i]]]

(***************************************************************************)
(* The steps the properties are about.                                     *)
(***************************************************************************)
\* a recv call is made (and returns in the same step)
RecvStep == sys'.op = "recv" /\ ncalls' = ncalls + 1

\* the handler is through with a frame it took from the ring: handle_packet
\* returned or panicked
IngestStep ==
    \/ Len(rxq') < Len(rxq) /\ intr'.pc \in {"loop", "halt"}
    \/ intr.pc \in {"lock_arp", "lock_sockets"} /\ intr'.pc = "loop"

\* connect's wait ends
WaitEndStep == sys.pc = "c_wait" /\ sys'.pc # "c_wait"

\* the socket the call in sys is about existed when the call was made
OnSocket == sys.sid \in DOMAIN sys.pre

(***************************************************************************)
(* Properties.                                                             *)
(***************************************************************************)
\* C1: socket ids are never reused: the ids socket() returned are pairwise
\* different, and the id a socket() call returns is not the key of a socket
\* that was in the table when the call was made (the insert replaces nothing).
C1_SocketIdsNeverReused ==
    /\ \A i, j \in 1..Len(issued) : i # j => issued[i] # issued[j]
    /\ (sys.op = "socket" /\ sys.ret >= 0) => sys.ret \notin DOMAIN sys.pre

\* C2: recv on an existing socket returns n = min(len, queue length) and the
\* first n bytes of the queue, and leaves the queue without its first n bytes.
C2_RecvTakesFromFront ==
    [][(RecvStep /\ sys'.sid \in DOMAIN sockets) =>
          LET old == sockets[sys'.sid].buffer
              n == Min(sys'.arg, Len(old))
          IN /\ sys'.ret = n
             /\ sys'.data = SubSeq(old, 1, n)
             /\ sockets'[sys'.sid].buffer = From(old, n + 1)]_vars

\* C3: when the pipeline is through with an Ethernet/IPv4/UDP frame, the
\* socket bound to the datagram's destination port, if it has room, holds its
\* old queue followed by exactly the datagram's payload, every other queue is
\* unchanged, and without such a socket every queue is unchanged.
C3_UdpDeliveredByteExact ==
    [][(IngestStep /\ WireIsUdp(intr'.frame)) =>
          /\ intr'.pc # "halt"
          /\ sockets' = Delivered(sockets, WireUdpDestPort(intr'.frame),
                                  WireUdpPayload(intr'.frame))]_vars

\* C4: a connect on an existing socket that found no cache entry, and during
\* whose wait the NIC received the matching ARP Reply, returns 0 with the
\* Reply's sender MAC as the socket's destination hardware address.
C4_ReplyInWaitConnects ==
    (sys.op = "connect" /\ sys.pc = "idle" /\ sys.miss /\ sys.reply_in_wait) =>
        /\ sys.ret = 0
        /\ sockets[sys.sid].dest_hardware_address = PeerMac

\* C5: a connect that found no cache entry has handed exactly one frame to
\* the driver once its resolve step is taken, the broadcast ARP Request for
\* the destination address, and never a second one; a connect that found an
\* entry has handed none.
C5_ConnectOneArpRequest ==
    sys.op = "connect" =>
        /\ (sys.miss /\ sys.pc # "c_resolve") =>
                sys.sent = << ArpRequestWire(sys.dst) >>
        /\ (~sys.miss \/ sys.pc = "c_resolve") => sys.sent = << >>

\* a connect returned after a cache miss and one request
C5_Witness ==
    /\ sys.op = "connect" /\ sys.pc = "idle"
    /\ sys.miss /\ Len(sys.sent) = 1
    /\ sys.sent[1][42] = PeerIp[4]

\* C6: when connect's wait ends and the cache has no entry for the
\* destination address, connect returns non-zero and the socket is as it was
\* when the call was made.
C6_TimeoutLeavesSocket ==
    [][(WaitEndStep /\ sys.dst \notin DOMAIN arp_cache) =>
          /\ sys'.pc = "idle"
          /\ sys'.ret # 0
          /\ sockets'[sys.sid] = sys.pre[sys.sid]]_vars

\* a connect returned from its wait without an entry in the cache
C6_Witness ==
    /\ sys.op = "connect" /\ sys.pc = "idle"
    /\ sys.miss /\ sys.ret = 1
    /\ sys.dst \notin DOMAIN arp_cache

\* C7: a send on a connected socket does not halt, and when it has returned
\* it has returned min(n, 1024) and handed exactly one frame to the driver,
\* the socket's datagram with the first min(n, 1024) payload bytes.
C7_SendOneDatagram ==
    (sys.op = "send" /\ OnSocket /\ sys.pre[sys.sid].dest_port # NoPort) =>
        /\ sys.pc # "halt"
        /\ sys.pc = "idle" =>
              /\ sys.ret = Min(Len(sys.data), MaxSendLen)
              /\ Len(sys.sent) = 1
              /\ WireIsDatagramOf(sys.sent[1], sys.pre[sys.sid], sys.data)

\* C8: send and recv do not halt and return a byte count or -1; a send on an
\* id that is not in the table or on a socket that was never connected
\* returns -1 at once, hands no frame to the driver and holds no lock.
C8_SendRecvAlwaysReturn ==
    sys.op \in {"send", "recv"} =>
        /\ sys.pc # "halt"
        /\ sys.pc = "idle" => sys.ret >= -1
        /\ (sys.op = "send" /\ (~OnSocket \/ sys.pre[sys.sid].dest_port = NoPort)) =>
              /\ sys.pc = "idle"
              /\ sys.ret = -1
              /\ sys.sent = << >>
              /\ \A l \in Locks : lock[l] # "sys"

\* C9: a successful connect leaves the source port and address of a bound
\* socket as bind set them, and gives an unbound socket the port
\* 1024 + socket_id and the address 10.0.0.2.
C9_ConnectKeepsBoundPort ==
    (sys.op = "connect" /\ sys.pc = "idle" /\ sys.ret = 0) =>
        IF sys.pre[sys.sid].source_port # NoPort
        THEN /\ sockets[sys.sid].source_port = sys.pre[sys.sid].source_port
             /\ sockets[sys.sid].source_address = sys.pre[sys.sid].source_address
        ELSE /\ sockets[sys.sid].source_port = EphemeralBase + sys.sid
             /\ sockets[sys.sid].source_address = DeviceIp

\* C10: a connect does not halt for any destination port, and one that
\* returned 0 has recorded the destination port, the destination address and
\* the cached hardware address of that address.
C10_ConnectRecordsAnyPort ==
    sys.op = "connect" =>
        /\ sys.pc # "halt"
        /\ (sys.pc = "idle" /\ sys.ret = 0) =>
              /\ sockets[sys.sid].dest_port = sys.arg
              /\ sockets[sys.sid].dest_protocol_address = sys.dst
              /\ sockets[sys.sid].dest_hardware_address = arp_cache[sys.dst]

\* a system call is made
CallStep == ncalls' = ncalls + 1

\* C11: shutdown returns 0 exactly when the id is in the table, and then
\* removes that socket and leaves every other one as it was; on an id that is
\* not in the table it returns non-zero and leaves the table as it was; a
\* shutdown or recv that follows a successful shutdown of the same id fails.
C11_ShutdownRemovesOne ==
    [][(CallStep /\ sys'.op = "shutdown") =>
          /\ IF sys'.sid \in DOMAIN sockets
             THEN /\ sys'.ret = 0
                  /\ DOMAIN sockets' = DOMAIN sockets \ {sys'.sid}
                  /\ \A k \in DOMAIN sockets' : sockets'[k] = sockets[k]
             ELSE /\ sys'.ret # 0
                  /\ sockets' = sockets]_vars
    /\ [][(CallStep /\ sys.op = "shutdown" /\ sys.ret = 0 /\ sys'.sid = sys.sid) =>
             /\ sys'.op = "shutdown" => sys'.ret # 0
             /\ sys'.op = "recv" => sys'.ret = -1]_vars

\* a shutdown removed one of two sockets
C11_Witness ==
    /\ sys.op = "shutdown" /\ sys.ret = 0
    /\ Cardinality(DOMAIN sys.pre) = 2
    /\ Cardinality(DOMAIN sockets) = 1

\* C12: bind on a socket in the table, with a port in 0..65535, returns 0,
\* sets the source port to the port and the source address to 10.0.0.2
\* whatever the address argument, and changes nothing else; on an id that is
\* not in the table or with a port outside 0..65535 it returns non-zero and
\* changes nothing.
C12_BindSetsSourceOnly ==
    [][(CallStep /\ sys'.op = "bind") =>
          IF sys'.sid \in DOMAIN sockets /\ sys'.arg \in 0..65535
          THEN /\ sys'.ret = 0
               /\ sockets' = [sockets EXCEPT
                                ![sys'.sid].source_port = sys'.arg,
                                ![sys'.sid].source_address = << 10, 0, 0, 2 >>]
          ELSE /\ sys'.ret # 0
               /\ sockets' = sockets]_vars

\* a bind with another address than the device's succeeded
C12_Witness ==
    /\ sys.op = "bind" /\ sys.ret = 0
    /\ sys.dst = PeerIp
    /\ sockets[sys.sid].source_port = 9000

\* C13: when the handler is through with an ARP Reply with sender protocol
\* address X and sender hardware address M, the cache maps X to M (whatever
\* it held for X before) and every other entry is as it was; when it is
\* through with an ARP Request, for the device's address or for another, the
\* cache is as it was.
C13_ArpCacheLearnsReplies ==
    [][(IngestStep /\ WireIsArp(intr'.frame)) =>
          LET a == WireArp(intr'.frame)
          IN /\ intr'.pc # "halt"
             /\ a.oper = 2 =>
                    /\ DOMAIN arp_cache' = DOMAIN arp_cache \cup {a.spa}
                    /\ arp_cache'[a.spa] = a.sha
                    /\ \A k \in DOMAIN arp_cache \ {a.spa} :
                            arp_cache'[k] = arp_cache[k]
             /\ a.oper = 1 => arp_cache' = arp_cache]_vars

\* a Reply was learnt next to the entry of another address
C13_Witness ==
    /\ intr.kind = "arp_reply" /\ intr.done
    /\ WireArp(intr.frame).spa = PeerIp
    /\ OtherIp \in DOMAIN arp_cache
    /\ arp_cache[PeerIp] = WireArp(intr.frame).sha

C15_EchoRequestAnswered ==
    [][(IngestStep /\ WireIsEchoRequest(intr'.frame)) =>
          /\ intr'.pc # "halt"
          /\ Len(intr'.sent) = 1
          /\ WireIsEchoReplyTo(intr'.sent[1], intr'.frame)]_vars

\* C16: the three shared locks are acquired in the order device, ARP cache,
\* socket table: neither a system call nor the interrupt handler requests a
\* lock while it holds one that comes later in that order (no request of the
\* device or the ARP cache under the socket table, none of the device under
\* the ARP cache).
C16_LockOrder ==
    LET rank == [l \in Locks |-> CASE l = "device" -> 1
                                   [] l = "arp" -> 2
                                   [] l = "sockets" -> 3]
    IN /\ \A l \in Locks :
            (lock[l] = "sys" /\ SysRequests # "none") => rank[l] < rank[SysRequests]
       /\ \A l \in Locks :
            (lock[l] = "intr" /\ IntrRequests # "none") => rank[l] < rank[IntrRequests]

\* C17: whenever a CPU holds a shared spinlock (it set the flag and has not
\* cleared it) interrupts are disabled on that CPU, from the compare-and-set
\* on; so the interrupt handler is never running on a CPU whose interrupted
\* code holds a shared lock.
C17_HolderHasInterruptsOff ==
    /\ \A l \in Locks : lock[l] = "sys" => ~InterruptsEnabled(sys.cpu)
    /\ intr.pc # "idle" => ~(\E l \in Locks : lock[l] = "sys" /\ sys.cpu = IrqCpu)

\* C18: when the handler returns from a drain, rx_idx is the RDH the last
\* recv read and RDT holds (rx_idx - 1) mod 256, a value in 0..255, wherever
\* in the ring the drain started and also when rx_idx went from 255 to 0;
\* and recv itself never stops the drain.
C18_DrainLeavesRdtBehind ==
    /\ [][(intr.pc = "loop" /\ intr'.pc = "idle") =>
             /\ e1000'.rx_idx = e1000.rdh
             /\ e1000'.rdt = (e1000'.rx_idx + RX_RING_LEN - 1) % RX_RING_LEN
             /\ e1000'.rdt \in 0..(RX_RING_LEN - 1)]_vars
    /\ [](intr.kind # "recv_panic")

\* C19: the frames of a burst are handled one at a time, in the order the
\* NIC wrote them into consecutive descriptors, each once: a frame the driver
\* takes from the ring is the oldest one pending, it is passed to
\* handle_packet, and the handling of the frame taken before is complete.
C19_BurstHandledInOrder ==
    [][(Len(rxq') < Len(rxq)) =>
          /\ rxq' = Tail(rxq)
          /\ intr'.frame = Head(rxq)
          /\ intr'.kind # "recv_panic"
          /\ intr.pc = "loop"
          /\ (intr.frame # << >>) => (intr.done \/ intr.kind = "none")]_vars

\* C20: every frame handed to the driver, by send or by the handler, is
\* written to the descriptor after the one written before (mod 256) and TDT
\* is set past it; so every written descriptor is exposed to the NIC, and
\* the frames sent on the wire followed by the frames still in the ring are
\* the frames in the order E1000::send was called with them: the datagrams
\* of a socket leave in the order of its send calls, also with replies of
\* the handler in between.
C20_SendsLeaveInOrder ==
    /\ [][(tx_ring'.log # tx_ring.log) =>
             /\ tx_idx \in DOMAIN tx_ring'.tx
             /\ tx_idx' = (tx_idx + 1) % TX_RING_LEN
             /\ tx_ring'.tdt = tx_idx']_vars
    /\ [](/\ DOMAIN tx_ring.tx \subseteq {TxExposed[i] : i \in 1..Len(TxExposed)}
          /\ tx_ring.wire \o TxPending = tx_ring.log)

\* two datagrams of the socket were sent on the wire with a reply of the
\* handler between them, in descriptors 255, 0 and 1
C20_Witness ==
    /\ Len(tx_ring.wire) = 3
    /\ WireIsUdp(tx_ring.wire[1]) /\ WireIsArp(tx_ring.wire[2])
    /\ WireIsUdp(tx_ring.wire[3])
    /\ tx_ring.wire[1] # tx_ring.wire[3]
    /\ tx_idx = 2

(***************************************************************************)
(* The IPv4 header checksum.                                               *)
(***************************************************************************)
\* the one's-complement sum of 16-bit words: the carries are added back in
\* until the sum fits 16 bits
RECURSIVE Fold16(_)
Fold16(x) == IF x < 65536 THEN x ELSE Fold16((x \div 65536) + (x % 65536))

\* the header was serialized
Ipv4Written == unit.op = "ip" /\ unit.pc \in {"written", "parsed"}

\* the serialized header with its checksum field set to zero
Ipv4ZeroedChecksum(b) == SubSeq(b, 1, 10) \o << 0, 0 >> \o SubSeq(b, 13, 20)

\* C21: the checksum field of every serialized header is the one's
\* complement of the folded sum of the ten header words taken with a zero
\* checksum field, so the folded sum of the ten serialized words is 0xFFFF
C21_HeaderChecksumFolds ==
    Ipv4Written =>
        /\ Len(unit.bytes) = 20
        /\ U16At(unit.bytes, 11)
              = 65535 - Fold16(Ipv4WordSum(Ipv4ZeroedChecksum(unit.bytes)))
        /\ Fold16(Ipv4WordSum(unit.bytes)) = 65535

\* a header whose word sum carries out of 16 bits was serialized
C21_Witness ==
    /\ Ipv4Written
    /\ Ipv4WordSum(Ipv4ZeroedChecksum(unit.bytes)) >= 65536

\* version 4, IHL 5, TOS 0, total length 60, identification 4889, DF set,
\* MF clear, fragment offset 0, TTL 64, protocol TCP, 10.0.0.1 to 10.0.0.2
C22_Header ==
    Ipv4Packet_new(0, 0, 60, 4889, TRUE, FALSE, 0, 64, "TCP", << 10, 0, 0, 1 >>, << 10, 0, 0, 2 >>)

\* C22: serializing that header yields 45 00 00 3C 13 19 40 00 40 06 13 A1
\* 0A 00 00 01 0A 00 00 02: the checksum bytes 10-11 are 13 A1
C22_ExampleHeaderBytes ==
    (Ipv4Written /\ unit.header = C22_Header) =>
        unit.bytes = << 69, 0, 0, 60, 19, 25, 64, 0, 64, 6, 19, 161,
                         10, 0, 0, 1, 10, 0, 0, 2 >>

\* C22 as stated: the checksum bytes 10-11 are B1 E6
C22_AsStated ==
    (Ipv4Written /\ unit.header = C22_Header) =>
        unit.bytes = << 69, 0, 0, 60, 19, 25, 64, 0, 64, 6, 177, 230,
                         10, 0, 0, 1, 10, 0, 0, 2 >>

\* that header was serialized
C22_Witness == Ipv4Written /\ unit.header = C22_Header

\* C23: with fragment offset 0, byte 6 of the serialized header is 0x40 for
\* DF plus 0x20 for MF and byte 7 is 0, and parsing the bytes returns the
\* DF and MF the header was built with
C23_FlagBits ==
    (unit.op = "ip" /\ unit.header.fragment_offset = 0) =>
        /\ unit.pc \in {"written", "parsed"} =>
            /\ unit.bytes[7] = (IF unit.header.df THEN 64 ELSE 0)
                                  + (IF unit.header.mf THEN 32 ELSE 0)
            /\ unit.bytes[8] = 0
        /\ unit.pc = "parsed" =>
            /\ unit.parsed.df = unit.header.df
            /\ unit.parsed.mf = unit.header.mf

(***************************************************************************)
(* The Ethernet header.                                                    *)
(***************************************************************************)
\* the EtherType numbers (IEEE 802 registry) of the six variants
EthertypeNumber(t) ==
    CASE t = "IPV4" -> 2048
      [] t = "ARP" -> 2054
      [] t = "WAKE_ON_LAN" -> 2114
      [] t = "RARP" -> 32821
      [] t = "SLPP" -> 33027
      [] t = "IPV6" -> 34525

\* C24: the 14 serialized bytes of every Ethernet header carry the
\* ethertype 0x0800, 0x0806, 0x0842, 0x8035, 0x8103 or 0x86DD of its
\* variant, and parsing them returns the same header
C24_EthernetRoundTrip ==
    unit.op = "ethernet" =>
        /\ unit.pc \in {"written", "parsed"} =>
            /\ Len(unit.bytes) = 14
            /\ U16At(unit.bytes, 13) = EthertypeNumber(unit.header.ethertype)
        /\ unit.pc = "parsed" => unit.parsed = unit.header

(***************************************************************************)
(* The UDP header send emits.                                              *)
(***************************************************************************)
\* the checksum field of the UDP header (RFC 768: bytes 6-7)
WireUdpChecksum(frame) == U16At(frame, WireUdpStart(frame) + 6)

\* C25: every UDP datagram send hands to the device carries checksum 0
C25_UdpChecksumZero ==
    \A i \in 1..Len(tx_ring.log) :
        WireIsUdp(tx_ring.log[i]) => WireUdpChecksum(tx_ring.log[i]) = 0

\* C26: when the pipeline is through with a frame that cannot be parsed at
\* some layer, the handler has not halted and goes on with the ring, no
\* frame was handed to the driver, and the ARP cache and the socket table
\* are as they were.
C26_MalformedDropped ==
    [][(IngestStep /\ intr'.frame \in MalformedFrames) =>
          /\ intr'.pc = "loop"
          /\ intr'.sent = << >>
          /\ tx_idx' = tx_idx
          /\ arp_cache' = arp_cache
          /\ sockets' = sockets]_vars

\* C27: when the handler reads an interrupt cause register that has RXO
\* set, whichever other cause bits are set with it, it halts there, before
\* it takes any frame from the ring.
C27_OverrunIsFatal ==
    [][(intr.pc = "lock_device" /\ intr'.pc # "lock_device"
            /\ mask_has(e1000.icr, RXO)) =>
          intr'.pc = "halt"]_vars

(***************************************************************************)
(* The spinlock.                                                           *)
(***************************************************************************)
\* the contenders that hold a guard: lock() returned and the drop has not
\* begun
SpinGuards == {p \in SpinProcs : unit.pc[p] = "held"}

\* C28: at most one guard of the spinlock exists at any time, no lock()
\* returns while a guard exists, under every interleaving of the CPUs and
\* the interrupt handler, and the drop of the guard clears the flag (so that
\* a later lock() succeeds: the witness).
C28_OneGuard ==
    /\ [](unit.op = "spinlock" => Cardinality(SpinGuards) <= 1)
    /\ [][unit.op = "spinlock" =>
            /\ SpinGuards # {} => unit'.returned = unit.returned
            /\ (SpinGuards # {} /\ SpinGuards' = {}) => ~unit'.flag]_vars

\* a second contender took the lock after the first dropped its guard, and
\* holds it while the first waits in lock() again
C28_Witness ==
    /\ unit.op = "spinlock"
    /\ Len(unit.returned) = 2
    /\ unit.returned[1] # unit.returned[2]
    /\ unit.pc[unit.returned[2]] = "held"
    /\ unit.pc[unit.returned[1]] = "lock"

(***************************************************************************)
(* The packet buffer.                                                      *)
(***************************************************************************)
\* the records in the order the wire carries them: the last serialized first
RECURSIVE WireOrder(_)
WireOrder(values) ==
    IF values = << >> THEN << >> ELSE WireOrder(Tail(values)) \o Head(values)

\* records were serialized into a fresh buffer, none past its capacity
BufWritten == unit.op = "buffer" /\ unit.pc = "run" /\ unit.values # << >>

\* C29: after v1..vk were serialized into a fresh buffer of capacity C, of
\* total size S <= C, len() is S, the live region is the last S bytes of the
\* buffer and reads bytes(vk), .., bytes(v1); and each serialize leaves the
\* bytes written before it as they were.
C29_SerializeStacksFromEnd ==
    /\ [](BufWritten =>
            LET S == Len(WireOrder(unit.values))
                C == Len(unit.pb.buf)
            IN /\ PacketBuffer_len(unit.pb) = S
               /\ PacketBuffer_live(unit.pb) = SubSeq(unit.pb.buf, C - S + 1, C)
               /\ PacketBuffer_live(unit.pb) = WireOrder(unit.values))
    /\ [][(BufWritten /\ BufWritten') =>
            LET C == Len(unit.pb.buf)
            IN /\ Len(unit'.pb.buf) = C
               /\ SubSeq(unit'.pb.buf, C - unit.pb.offset + 1, C)
                    = SubSeq(unit.pb.buf, C - unit.pb.offset + 1, C)]_vars

\* three records fill a buffer to its last byte
C29_Witness ==
    /\ BufWritten
    /\ Len(unit.values) = 3
    /\ unit.values[1] # unit.values[2]
    /\ PacketBuffer_len(unit.pb) = Len(unit.pb.buf)

\* the length of a header on the wire: Ethernet II, IPv4 without options
\* (RFC 791), ARP for Ethernet and IPv4 (RFC 826)
WireSize(type) ==
    CASE type = "EthernetFrame" -> 14
      [] type = "Ipv4Packet" -> 20
      [] type = "ArpPacket" -> 28

\* C30: a parse moves the cursor by exactly the wire size of the record it
\* parsed, 14 for Ethernet, 20 for IPv4 without options, 28 for ARP, so that
\* after the Ethernet and the IPv4 header the next parse starts at byte 34.
C30_ParseAdvancesByWireSize ==
    /\ []((unit.op = "buffer" /\ unit.parsed = << "EthernetFrame", "Ipv4Packet" >>) =>
            unit.pb.offset = 34)
    /\ [][(unit.op = "buffer" /\ Len(unit'.parsed) > Len(unit.parsed)) =>
            unit'.pb.offset
                = unit.pb.offset + WireSize(unit'.parsed[Len(unit'.parsed)])]_vars

(***************************************************************************)
(* The ownership of the RX descriptors.                                    *)
(***************************************************************************)
\* the descriptor is in the part of the ring the NIC may write: the indices
\* from RDH up to, not including, RDT, mod 256
RxHardwareOwned(dev, idx) ==
    ((idx - dev.rdh) % RX_RING_LEN) < ((dev.rdt - dev.rdh) % RX_RING_LEN)

\* recv returned a frame: the driver copied it out of its descriptor
RxCopyStep == Len(rxq') < Len(rxq) /\ intr'.kind # "recv_panic"

\* C31: when recv copies a frame out of the descriptor at rx_idx, after it
\* wrote RDT, that descriptor is outside the hardware-owned part of the ring,
\* and the bytes copied are the frame the NIC wrote there.
C31_CopyOutsideHardwarePart ==
    [][RxCopyStep =>
          /\ ~RxHardwareOwned(e1000', e1000.rx_idx)
          /\ intr'.frame = Head(rxq)]_vars

\* a frame was copied out of descriptor 254 while the NIC had written the
\* next one and moved RDH across the end of the ring
C31_Witness ==
    /\ intr.frame # << >>
    /\ intr.kind # "recv_panic"
    /\ e1000.rx_idx = 255
    /\ e1000.rdt = 254
    /\ e1000.rdh = 0

\* the steps of E1000::new after the enumeration, in the order of the claim
E1000Order == << "set_bus_master", "read_bar", "read_mac", "init_rx", "init_tx", "init_interrupts", "ioapicenable" >>

\* the slots of bus 0 that hold the 8086:100E device
E1000Slots == {d \in PciDevices : unit.bus[d].vendor_id = 32902 /\ unit.bus[d].device_id = 4110}

\* C32: initialisation locates the device among slots 0..3 of bus 0 and
\* stops at the first match, then enables bus mastering, reads BAR0, reads
\* the MAC address, initialises the RX ring (RDH = 0, RDT = 255) and the TX
\* ring (tx_idx = 1, TDH = TDT = 0), programs IMS and only then unmasks the
\* IRQ; when no slot matches it halts before any of the later steps.
C32_InitOrder ==
    unit.op = "init" =>
        /\ \E n \in 0..Len(E1000Order) : unit.steps = SubSeq(E1000Order, 1, n)
        /\ unit.steps # << >> => unit.pc # "probe"
        /\ unit.pc \notin {"probe", "halt"} =>
              /\ unit.target_device \in E1000Slots
              /\ \A d \in E1000Slots : unit.target_device <= d
        /\ unit.pc = "halt" <=> (unit.device = 3 /\ E1000Slots = {} /\ unit.pc # "probe")
        /\ unit.pc = "halt" => unit.steps = << >> /\ unit.target_device = NoDevice
        /\ unit.pc \in {"ioapicenable", "done"} =>
              /\ unit.rdh = 0 /\ unit.rdt = 255
              /\ unit.tx_idx = 1 /\ unit.tdh = 0 /\ unit.tdt = 0
              /\ unit.ims = IMS
        /\ unit.pc = "done" <=> unit.steps = E1000Order

\* the IRQ is unmasked for the device found in slot 2, behind another Intel device
C32_Witness ==
    /\ unit.op = "init"
    /\ unit.pc = "done"
    /\ unit.target_device = 2
    /\ unit.bus[0].vendor_id = 32902
    /\ unit.bus[3].device_id = 4110

\* the handler goes on with an ARP frame: it took it from the ring or it
\* finished with it
ArpStep == intr' # intr /\ intr'.pc # "idle" /\ WireIsArp(intr'.frame)

\* C33: when the handler is through with an ARP Request whose target protocol
\* address is not the device's, or with an ARP packet whose operation is
\* neither Request nor Reply, no frame was handed to the driver and the ARP
\* cache and the socket table are as they were; in no step the handler takes
\* on an ARP Reply is a frame handed to the driver.
C33_ArpIgnored ==
    /\ [][(IngestStep /\ WireIsArp(intr'.frame)) =>
            LET a == WireArp(intr'.frame)
            IN ((a.oper = 1 /\ a.tpa # DeviceIp) \/ a.oper \notin {1, 2}) =>
                  /\ intr'.pc = "loop"
                  /\ intr'.sent = << >>
                  /\ tx_idx' = tx_idx
                  /\ tx_ring' = tx_ring
                  /\ arp_cache' = arp_cache
                  /\ sockets' = sockets]_vars
    /\ [][(ArpStep /\ WireArp(intr'.frame).oper = 2) =>
            /\ intr'.sent = << >>
            /\ tx_idx' = tx_idx
            /\ tx_ring' = tx_ring]_vars

\* a packet with operation 3 was dropped after a Reply had been learnt
C33_Witness ==
    /\ intr.done /\ intr.kind = "drop"
    /\ WireIsArp(intr.frame)
    /\ WireArp(intr.frame).oper = 3
    /\ WireArp(intr.frame).tpa = DeviceIp
    /\ PeerIp \in DOMAIN arp_cache

\* a system call holds the lock l and spins on the lock m, which the handler
\* holds while it spins on l
CrossedLocks(l, m) ==
    /\ lock[l] = "sys" /\ SysRequests = m
    /\ lock[m] = "intr" /\ IntrRequests = l

\* C34: with the system calls on one CPU and the NIC interrupt handler on
\* another, there is no state in which a system call and the handler each
\* hold one shared spinlock and spin on the one the other holds.
C34_NoCrossedLocks ==
    sys.cpu # IrqCpu => \A l, m \in Locks : ~CrossedLocks(l, m)

\* C35: while connect busy-waits for the ARP Reply the calling CPU holds none
\* of the three spinlocks and its interrupt-disable depth is zero, so a NIC
\* interrupt raised during the wait can be taken on that CPU.
C35_WaitHoldsNoLock ==
    sys.pc = "c_wait" =>
        /\ \A l \in Locks : lock[l] # "sys"
        /\ InterruptsEnabled(sys.cpu)

\* the descriptor idx is in the pending part of the ring: from TDH up to,
\* not including, TDT, around the ring
TxPendingPart(ring, idx) ==
    (idx - ring.tdh + TX_RING_LEN) % TX_RING_LEN
        < (ring.tdt - ring.tdh + TX_RING_LEN) % TX_RING_LEN

\* E1000::send was called: a frame went into the descriptor at tx_idx
TxFillStep == tx_ring'.log # tx_ring.log

C37_QueueBelowLimit ==
    \A k \in DOMAIN sockets : Len(sockets[k].buffer) < 2048

\* a one-byte datagram was dropped at a queue of 2047 bytes which an earlier
\* datagram had filled
C37_Witness ==
    /\ intr.kind = "udp" /\ intr.done
    /\ nframes = 2
    /\ rxq = << >>
    /\ Len(sockets[1].buffer) = 2047
    /\ sockets[1].buffer[2047] = 0

\* the sockets bound to the destination port of the datagram in the frame
UdpBound(frame) ==
    {k \in DOMAIN sockets : sockets[k].source_port = WireUdpDestPort(frame)}

\* C38: when the handler is through with a UDP datagram, the only thing that
\* may have changed is the receive queue of the lowest-id socket whose source
\* port is the datagram's destination port: every other socket, one with no
\* source port and a higher-id socket bound to the same port included, is as
\* it was, also when the lowest-id socket had no room; the ARP cache is as it
\* was and no frame was handed to the driver.
C38_OnlyLowestBoundSocket ==
    [][(IngestStep /\ WireIsUdp(intr'.frame)) =>
          /\ DOMAIN sockets' = DOMAIN sockets
          /\ \A k \in DOMAIN sockets :
                \/ sockets'[k] = sockets[k]
                \/ /\ k \in UdpBound(intr'.frame)
                   /\ \A j \in UdpBound(intr'.frame) : k <= j
                   /\ sockets'[k] = [sockets[k] EXCEPT !.buffer = sockets'[k].buffer]
          /\ arp_cache' = arp_cache
          /\ intr'.sent = << >>
          /\ tx_idx' = tx_idx]_vars

\* C39: in every reachable state of every PacketBuffer the offset is at most
\* the capacity, for the buffers of the frames the NIC delivers and for the
\* 2048-byte buffer of the ICMP reply.
C39_OffsetWithinCapacity ==
    unit.op = "buffer" => unit.pb.offset <= Len(unit.pb.buf)

\* the handler has returned with the ring drained and the device lock free
Drained ==
    /\ intr.pc = "idle"
    /\ e1000.rx_idx = e1000.rdh
    /\ lock["device"] = "free"
    /\ rxq = << >>

\* C40: once the NIC writes no more frames the drain loop terminates: the
\* handler returns with rx_idx = RDH and the device lock released, for good;
\* and every frame the NIC wrote was dispatched exactly once: each recv
\* takes the oldest frame not yet taken, and at the end none is left.
C40_DrainTerminates ==
    /\ <>[]Drained
    /\ [][RxCopyStep => (intr'.frame = Head(rxq) /\ rxq' = Tail(rxq))]_vars

====
